---- MODULE Spec2Model ----
(***************************************************************************)
(* Question-generation core of the repository: the Gemini API key pool     *)
(* (round robin with health tracking), the completion client              *)
(* callGeminiAPI, generateQuestionsForTopic and the orchestration loop     *)
(* generateNewQuestions with its start / pause / stop controls.            *)
(*                                                                         *)
(* Indexes into API_KEY_STATES are 0-based as in the source; the TLA+      *)
(* sequence holding the pool is read at index + 1.                         *)
(***************************************************************************)
EXTENDS Integers, Sequences, FiniteSets, TLC

\* ------------------------------------------------------------------ bounds
MaxKeys == 3            \* entries in one list handed to setGeminiApiKeys
MaxSelections == 10     \* selections made between two configurations
ClientKeys == 2         \* credentials configured for the completion client
ClientSelections == 7   \* selections the completion client makes per configuration
MaxTasks == 2           \* generateQuestionsForTopic invocations alive at a time
MaxRuns == 2            \* generateNewQuestions passes started
MaxQuota == 5           \* questionsToGenerate of a topic
MaxQuestions == 4       \* question texts the provider produces for one pass
MaxOverlapQuestions == 2 \* question texts the provider produces for two passes
MaxFaults == 1          \* provider failures, timeouts and database errors
ItemQuestions == 2      \* question texts the provider produces for a failing pass
ItemFaults == 9         \* provider failures, timeouts and database errors of a failing pass
LiveQuestions == 1      \* question texts the provider produces for a pass left to end
LiveFaults == 1         \* provider failures and database errors of a pass left to end
MaxStored == 2          \* rows of new_questions the validator finds
ValidatePasses == 2     \* validations started
ValidateFaults == 3     \* provider failures and database errors met by the validator
MaxChecked == 1         \* questions inserted by the checks on their own
RunKeys == 1            \* credentials startGeneration configures
MaxTopics == 3          \* topics of the selected course
MaxTarget == 3          \* the small numbers of questions asked for
MaxPyqs == 2            \* rows of the questions_topic_wise table
MaxStatsRows == 2       \* rows of new_questions the statistics count
SolveFaults == 6        \* failures met by one generatePYQSolutions pass
MaxPieces == 3          \* pieces a response of the provider is made of
MaxSanitize == 2        \* applications of sanitizeJsonString in a row
ConfigSelections == 2   \* selections made on the pools setGeminiApiKeys replaces

\* ------------------------------------------------------- program constants
ErrorThreshold == 3     \* markKeyError: errorCount >= 3 deactivates
RetriesPerKey == 3      \* callGeminiAPI: maxTotalRetries = API_KEY_STATES.length * 3
maxRetries == 8         \* generateQuestionsForTopic: attempts of one invocation
maxAttempts == 3        \* generateNewQuestions: attempts for one item
RecentWindow == 3       \* generateQuestionsForTopic: recentQuestions.slice(-3)
ContextChars == 2000    \* generateQuestionsForTopic: existingQuestionsContext.slice(-2000)

NULL == "null"

VARIABLES
  API_KEY_STATES,       \* the pool: sequence of ApiKeyState records
  currentKeyIndex,      \* the round-robin cursor (0-based)
  pending,              \* the key index handed out whose health update is
                        \* due, -1 when there is none
  selections,           \* indexes returned since the last configuration,
                        \* kept for as long as no failure has been recorded
  neverFailed,          \* no markKeyError since the last configuration
  exampleRun,           \* how much of ExampleHealth the health updates of the
                        \* first credential have spelled since configuration
                        \* (-1: they spell something else)
  lastOp,               \* the pool operation that produced this state
  call,                 \* per task: its callGeminiAPI invocation
  progress,             \* the component's progress state: isGenerating, isPaused
  run,                  \* per pass: the locals of generateNewQuestions
  task,                 \* per task: the locals of generateQuestionsForTopic
  rows,                 \* the new_questions table, in insertion order
  justAccepted,         \* per topic: the statement accepted since the last
                        \* attempt for the topic started, -1 when none
  passes,               \* generateNewQuestions passes started
  issued,               \* question texts the provider has produced
  faults,               \* failures the environment has produced
  limits,               \* what one behaviour may hold of passes, question
                        \* texts and failures
  questionType,         \* the component's questionType state
  topics,               \* the component's topics state, as loadTopics set it
  totalQuestions,       \* the component's totalQuestions state
  calculationResult,    \* calculateTopicQuestions(topics, totalQuestions) of
                        \* the last render
  stats,                \* the stats and totals states of QuestionStats
  generationMode,       \* the component's generationMode state
  selectedSlot,         \* the component's selectedSlot state ("" when none)
  selectedPart,         \* the component's selectedPart state ("" when none)
  questions_topic_wise, \* the table of reference items, by id
  pyq,                  \* the locals of generatePYQSolutions and of the
                        \* generateSolutionsForPYQs invocation it awaits
  generatedCount,       \* the component's generatedCount state, its pyq field
  completeToast,        \* the number of solutions in the toast that ends
                        \* generatePYQSolutions, -1 before it is shown
  geminiResponse,       \* the text the provider answered with
  cleaned,              \* the text sanitizeJsonString is applied to
  sanitized,            \* the number of times it has been applied
  parsed,               \* the invocation of parseJsonRobust on the response:
                        \* what it returned or threw, and its errors array
  validationProgress,   \* the validator component's progress state
  validator             \* the locals of startValidation and of the
                        \* validateQuestionWithGeminiAI invocation it awaits

poolVars == <<API_KEY_STATES, currentKeyIndex>>
harnessVars == <<pending, selections, neverFailed, exampleRun, lastOp>>
clientVars == <<call>>
planVars == <<topics, totalQuestions, calculationResult, stats>>
solutionVars == <<selectedSlot, selectedPart, questions_topic_wise, pyq,
                  generatedCount, completeToast>>
textVars == <<geminiResponse, cleaned, sanitized, parsed>>
validatorVars == <<validationProgress, validator>>
restVars == <<questionType, generationMode, planVars, solutionVars, textVars,
              validatorVars>>
passVars == <<progress, run, task, rows, justAccepted, passes, issued, faults,
             limits>>
orchVars == <<passVars, restVars>>

vars == <<poolVars, harnessVars, clientVars, orchVars>>

\* ----------------------------------------------------------------- strings
\* A key is a string; it is modelled as a sequence of characters so that
\* trim() and the blank test are computed, not assumed.
InputStrings == { <<" ">>, <<" ", "a", " ">> }

RECURSIVE TrimLeft(_)
TrimLeft(s) == IF s # <<>> /\ Head(s) = " " THEN TrimLeft(Tail(s)) ELSE s

RECURSIVE TrimRight(_)
TrimRight(s) ==
  IF s # <<>> /\ s[Len(s)] = " " THEN TrimRight(SubSeq(s, 1, Len(s) - 1)) ELSE s

Trim(s) == TrimRight(TrimLeft(s))

\* The lists handed to setGeminiApiKeys: MaxKeys input slots, each holding
\* one of InputStrings
KeyLists == [1..MaxKeys -> InputStrings]

\* ------------------------------------------------------------ the key pool
\* setGeminiApiKeys: keys.filter(key => key.trim() !== '')
RECURSIVE ValidKeys(_)
ValidKeys(keys) ==
  IF keys = <<>> THEN <<>>
  ELSE IF Trim(Head(keys)) # <<>> THEN <<Head(keys)>> \o ValidKeys(Tail(keys))
       ELSE ValidKeys(Tail(keys))

\* A pool entry that keeps the key as it was typed
NewKeyState_Untrimmed(key) ==
  [key |-> key, usageCount |-> 0, errorCount |-> 0, lastError |-> NULL,
   lastUsedAt |-> NULL, isActive |-> TRUE]

NewKeyState(key) ==
  [key |-> Trim(key), usageCount |-> 0, errorCount |-> 0, lastError |-> NULL,
   lastUsedAt |-> NULL, isActive |-> TRUE]

\* setGeminiApiKeys: the pool built from the valid entries
InitialKeyStates(keys) ==
  [i \in 1..Len(ValidKeys(keys)) |-> NewKeyState(ValidKeys(keys)[i])]

PoolSize == Len(API_KEY_STATES)

\* (mutant) a scan that starts at the key after the cursor
ScanActive_SkipsCursor(states, selectedIndex, attempts) ==
  LET steps == { d \in 1..Len(states) :
                   states[((selectedIndex + d) % Len(states)) + 1].isActive }
  IN  IF steps = {} THEN -1
      ELSE (selectedIndex + (CHOOSE d \in steps : \A e \in steps : d <= e)) % Len(states)

\* (mutant) the scan without its isActive test: the key under the cursor
ScanActive_IgnoresActive(states, selectedIndex, attempts) ==
  IF attempts >= Len(states) THEN -1 ELSE selectedIndex

\* getNextGeminiKey, the while loop: the first active index met scanning
\* cyclically from the cursor for at most PoolSize steps, -1 when the loop
\* ends without a return.
RECURSIVE ScanActive(_, _, _)
ScanActive(states, selectedIndex, attempts) ==
  IF attempts >= Len(states) THEN -1
  ELSE IF states[selectedIndex + 1].isActive THEN selectedIndex
       ELSE ScanActive(states, (selectedIndex + 1) % Len(states), attempts + 1)

\* (mutant) the reset reactivating the keys without zeroing errorCount
ResetAllKeys_KeepsErrorCount(states) ==
  [i \in DOMAIN states |-> [states[i] EXCEPT !.isActive = TRUE]]

\* getNextGeminiKey, the reset that follows a scan that found nothing
ResetAllKeys(states) ==
  [i \in DOMAIN states |-> [states[i] EXCEPT !.isActive = TRUE, !.errorCount = 0]]

\* getNextGeminiKey, the pool the (possibly repeated) scan runs on
PoolAfterReset(states, cur) ==
  IF ScanActive(states, cur, 0) = -1 THEN ResetAllKeys(states) ELSE states

\* getNextGeminiKey, the usage bookkeeping of the selected key
UseKey(states, index) ==
  [states EXCEPT ![index + 1].usageCount = @ + 1, ![index + 1].lastUsedAt = "now"]

\* (mutant) the cursor left on the key just returned
NextCursor_Stays(states, index) == index % Len(states)

NextCursor(states, index) == (index + 1) % Len(states)

\* (mutant) a credential deactivated one failure late
MarkKeyErrorStates_Late(states, keyIndex, errorMessage) ==
  IF keyIndex >= 0 /\ keyIndex < Len(states)
  THEN LET counted == [states EXCEPT ![keyIndex + 1].errorCount = @ + 1,
                                     ![keyIndex + 1].lastError = errorMessage]
       IN  IF counted[keyIndex + 1].errorCount > ErrorThreshold
           THEN [counted EXCEPT ![keyIndex + 1].isActive = FALSE]
           ELSE counted
  ELSE states

\* markKeyError
MarkKeyErrorStates(states, keyIndex, errorMessage) ==
  IF keyIndex >= 0 /\ keyIndex < Len(states)
  THEN LET counted == [states EXCEPT ![keyIndex + 1].errorCount = @ + 1,
                                     ![keyIndex + 1].lastError = errorMessage]
       IN  IF counted[keyIndex + 1].errorCount >= ErrorThreshold
           THEN [counted EXCEPT ![keyIndex + 1].isActive = FALSE]
           ELSE counted
  ELSE states

\* (mutant) a success that clears lastError and leaves errorCount
MarkKeySuccessStates_KeepsCount(states, keyIndex) ==
  IF keyIndex >= 0 /\ keyIndex < Len(states)
  THEN [states EXCEPT ![keyIndex + 1].lastError = NULL]
  ELSE states

\* markKeySuccess
MarkKeySuccessStates(states, keyIndex) ==
  IF keyIndex >= 0 /\ keyIndex < Len(states)
  THEN [states EXCEPT ![keyIndex + 1].errorCount = 0,
                      ![keyIndex + 1].lastError = NULL]
  ELSE states

\* --------------------------------------------------- pool operations (steps)
KeyIndexes == 0..(MaxKeys - 1)

PoolMessages == { "API key not valid", "Invalid response structure" }

RECURSIVE SumUpTo(_, _)
SumUpTo(f, i) == IF i < 0 THEN 0 ELSE f[i] + SumUpTo(f, i - 1)

TotalUsage(states) ==
  SumUpTo([i \in KeyIndexes |-> IF i < Len(states) THEN states[i + 1].usageCount ELSE 0],
          MaxKeys - 1)

AllInactive(states) == \A i \in DOMAIN states : ~states[i].isActive

\* The health history "fail, fail, success, fail, fail" of one credential
ExampleHealth == <<"F", "F", "S", "F", "F">>

Spelled(sofar, event) ==
  IF sofar >= 0 /\ sofar < Len(ExampleHealth) /\ ExampleHealth[sofar + 1] = event
  THEN sofar + 1 ELSE -1

Op(name, index, message, threw, reset) ==
  [op |-> name, index |-> index, message |-> message, threw |-> threw,
   reset |-> reset, keys |-> <<>>]

\* The record of a call of setGeminiApiKeys(keys)
ConfigureOp(keys, threw) ==
  [Op("setGeminiApiKeys", -1, NULL, threw, FALSE) EXCEPT !.keys = keys]

\* setGeminiApiKeys(keys), the pool and the cursor it leaves: unchanged when
\* it throws for want of a valid key
ConfiguredPool(states, keys) ==
  IF Len(ValidKeys(keys)) = 0 THEN states ELSE InitialKeyStates(keys)

ConfiguredCursor(cur, keys) == IF Len(ValidKeys(keys)) = 0 THEN cur ELSE 0

\* (mutant) a configuration that empties the pool before it validates
SetGeminiApiKeys_ClearsFirst(keys) ==
  IF Len(ValidKeys(keys)) = 0
  THEN /\ API_KEY_STATES' = <<>>
       /\ currentKeyIndex' = 0
       /\ lastOp' = ConfigureOp(keys, TRUE)
       /\ UNCHANGED <<pending, selections, neverFailed, exampleRun>>
  ELSE /\ API_KEY_STATES' = InitialKeyStates(keys)
       /\ currentKeyIndex' = 0
       /\ selections' = <<>>
       /\ neverFailed' = TRUE
       /\ exampleRun' = 0
       /\ lastOp' = ConfigureOp(keys, FALSE)
       /\ UNCHANGED pending

\* setGeminiApiKeys(keys)
SetGeminiApiKeys(keys) ==
  IF Len(ValidKeys(keys)) = 0
  THEN /\ lastOp' = ConfigureOp(keys, TRUE)
       /\ UNCHANGED <<API_KEY_STATES, currentKeyIndex, pending, selections,
                      neverFailed, exampleRun>>
  ELSE /\ API_KEY_STATES' = InitialKeyStates(keys)
       /\ currentKeyIndex' = 0
       /\ selections' = <<>>
       /\ neverFailed' = TRUE
       /\ exampleRun' = 0
       /\ lastOp' = ConfigureOp(keys, FALSE)
       /\ UNCHANGED pending

\* getNextGeminiKey()
GetNextGeminiKey ==
  /\ TotalUsage(API_KEY_STATES) < MaxSelections
  /\ pending = -1
  /\ IF PoolSize = 0
     THEN /\ lastOp' = Op("getNextGeminiKey", -1, NULL, TRUE, FALSE)
          /\ UNCHANGED <<API_KEY_STATES, currentKeyIndex, pending, selections,
                         neverFailed, exampleRun>>
     ELSE LET pool == PoolAfterReset(API_KEY_STATES, currentKeyIndex)
              index == ScanActive(pool, currentKeyIndex, 0)
          IN  /\ API_KEY_STATES' = UseKey(pool, index)
              /\ currentKeyIndex' = NextCursor(pool, index)
              /\ pending' = index
              /\ selections' = IF neverFailed THEN Append(selections, index)
                               ELSE selections
              /\ lastOp' = Op("getNextGeminiKey", index, NULL, FALSE,
                              ScanActive(API_KEY_STATES, currentKeyIndex, 0) = -1)
              /\ UNCHANGED <<neverFailed, exampleRun>>

\* markKeyError(keyIndex, errorMessage) for a key handed out earlier
MarkKeyError(keyIndex, errorMessage) ==
  /\ pending = keyIndex
  /\ API_KEY_STATES' = MarkKeyErrorStates(API_KEY_STATES, keyIndex, errorMessage)
  /\ pending' = -1
  /\ neverFailed' = FALSE
  /\ selections' = <<>>
  /\ exampleRun' = IF keyIndex = 0 THEN Spelled(exampleRun, "F") ELSE exampleRun
  /\ lastOp' = Op("markKeyError", keyIndex, errorMessage, FALSE, FALSE)
  /\ UNCHANGED currentKeyIndex

\* markKeySuccess(keyIndex) for a key handed out earlier
MarkKeySuccess(keyIndex) ==
  /\ pending = keyIndex
  /\ API_KEY_STATES' = MarkKeySuccessStates(API_KEY_STATES, keyIndex)
  /\ pending' = -1
  /\ exampleRun' = IF keyIndex = 0 THEN Spelled(exampleRun, "S") ELSE exampleRun
  /\ lastOp' = Op("markKeySuccess", keyIndex, NULL, FALSE, FALSE)
  /\ UNCHANGED <<currentKeyIndex, selections, neverFailed>>

\* ---------------------------------------------------- the completion client
TaskIds == 1..MaxTasks

\* Messages of the errors the client records and raises
NoKeysError == "No Gemini API keys configured. Please add API keys first."
EmptyPromptError == "Prompt cannot be empty"
ExhaustedError == "Failed to generate content after attemptCount attempts across all API keys"
ContentBlockedError == "Content blocked by Gemini"
InvalidStructureError == "Invalid response structure"
NoTextError == "No text content in response"
FetchError == "Failed to fetch"

\* Phrases the client looks for in the provider's error message
UnregisteredCallers == "unregistered callers"
KeyNotValid == "API key not valid"

\* errorMessage.includes(phrase): the provider's messages are modelled by the
\* phrase they carry, "other" carrying neither
Includes(message, phrase) == message = phrase

\* What a request to the provider can end in: the fetch (or reading its body)
\* throws; a status outside 2xx with an error message; a 2xx body without
\* candidates and with promptFeedback.blockReason ("blocked"), without
\* candidates ("empty"), with a candidate without text ("notext"), or with a
\* candidate carrying text.
HttpStatuses == { 400, 403, 404, 429, 500 }
HttpMessages == { UnregisteredCallers, KeyNotValid, "other" }

FailureResponses ==
  { [kind |-> "exception", status |-> 0, message |-> FetchError, text |-> NULL] }
  \cup [kind : {"http"}, status : HttpStatuses, message : HttpMessages, text : {NULL}]
  \cup [kind : {"blocked", "empty", "notext"}, status : {200}, message : {NULL},
        text : {NULL}]

TextResponse(text) == [kind |-> "text", status |-> 200, message |-> NULL, text |-> text]

\* One invocation of callGeminiAPI: where it stands, its locals, what it
\* returned or threw, the attempt count its final error message spells out
\* (-1 when the message carries none), and whether it has met a
\* content-safety block
IdleCall ==
  [pc |-> "idle", maxTotalRetries |-> 0, attemptCount |-> 0, keyIndex |-> -1,
   result |-> NULL, named |-> -1, blocked |-> FALSE]

InFlight(c) == c.pc \in {"fetch", "wait"}

Ended(c) == c.pc \in {"returned", "threw"}

Outcome(states, cur, c) == [states |-> states, cur |-> cur, call |-> c]

\* A loop whose budget test lets one attempt too many through
CallLoop_OneMore(states, cur, c) ==
  IF c.attemptCount <= c.maxTotalRetries /\ Len(states) > 0
  THEN IF Len(states) = 0
       THEN Outcome(states, cur,
                    [c EXCEPT !.attemptCount = @ + 1, !.pc = "threw",
                              !.result = NoKeysError])
       ELSE LET pool == PoolAfterReset(states, cur)
                index == ScanActive(pool, cur, 0)
            IN  Outcome(UseKey(pool, index), NextCursor(pool, index),
                        [c EXCEPT !.attemptCount = @ + 1, !.keyIndex = index,
                                  !.pc = "fetch"])
  ELSE Outcome(states, cur, [c EXCEPT !.pc = "threw", !.result = ExhaustedError,
                                      !.named = c.attemptCount])

\* callGeminiAPI, the head of the while loop up to the fetch: the budget test,
\* attemptCount++, getNextGeminiKey() (outside the try: its throw leaves the
\* call), the request; past the budget, the throw that follows the loop.
CallLoop(states, cur, c) ==
  IF c.attemptCount < c.maxTotalRetries
  THEN IF Len(states) = 0
       THEN Outcome(states, cur,
                    [c EXCEPT !.attemptCount = @ + 1, !.pc = "threw",
                              !.result = NoKeysError])
       ELSE LET pool == PoolAfterReset(states, cur)
                index == ScanActive(pool, cur, 0)
            IN  Outcome(UseKey(pool, index), NextCursor(pool, index),
                        [c EXCEPT !.attemptCount = @ + 1, !.keyIndex = index,
                                  !.pc = "fetch"])
  ELSE Outcome(states, cur, [c EXCEPT !.pc = "threw", !.result = ExhaustedError,
                                      !.named = c.attemptCount])

\* callGeminiAPI, from its entry to the first await
CallEnter(states, cur, prompt) ==
  LET c == [IdleCall EXCEPT !.maxTotalRetries = Len(states) * RetriesPerKey]
  IN  IF Trim(prompt) = <<>>
      THEN Outcome(states, cur, [c EXCEPT !.pc = "threw", !.result = EmptyPromptError])
      ELSE CallLoop(states, cur, c)

\* callGeminiAPI, the 10 s wait of a failed attempt
CallWait(states, cur, c) == Outcome(states, cur, [c EXCEPT !.pc = "wait"])

\* (mutant) a catch block that waits whatever attempts are left
CallCatch_AlwaysWaits(states, cur, c, message) ==
  CallWait(MarkKeyErrorStates(states, c.keyIndex, message), cur, c)

\* callGeminiAPI, the catch block around one attempt
CallCatch(states, cur, c, message) ==
  LET marked == MarkKeyErrorStates(states, c.keyIndex, message)
  IN  IF c.attemptCount < c.maxTotalRetries
      THEN CallWait(marked, cur, c)
      ELSE CallLoop(marked, cur, c)

\* A client that records the success and goes on to the next credential
CallReturn_TriesNext(states, cur, c, responseText) ==
  CallLoop(MarkKeySuccessStates(states, c.keyIndex), cur, [c EXCEPT !.result = responseText])

\* callGeminiAPI, a response with text: markKeySuccess(keyIndex); return
CallReturn(states, cur, c, responseText) ==
  Outcome(MarkKeySuccessStates(states, c.keyIndex), cur,
          [c EXCEPT !.pc = "returned", !.result = responseText])

\* callGeminiAPI, the attempt from the provider's answer to the next await,
\* return or throw
CallHandle(states, cur, c, resp) ==
  IF resp.kind = "exception" THEN CallCatch(states, cur, c, resp.message)
  ELSE IF resp.kind = "http"
  THEN LET marked == MarkKeyErrorStates(states, c.keyIndex, resp.message)
       IN  IF resp.status = 403 /\ Includes(resp.message, UnregisteredCallers)
           THEN CallWait(marked, cur, c)
           ELSE IF resp.status = 400 /\ Includes(resp.message, KeyNotValid)
           THEN CallLoop(marked, cur, c)
           ELSE IF resp.status = 429 \/ resp.status >= 500
           THEN CallWait(marked, cur, c)
           ELSE CallWait(marked, cur, c)
  ELSE IF resp.kind = "blocked"
  THEN CallCatch(states, cur, [c EXCEPT !.blocked = TRUE], ContentBlockedError)
  ELSE IF resp.kind = "empty"
  THEN CallWait(MarkKeyErrorStates(states, c.keyIndex, InvalidStructureError), cur, c)
  ELSE IF resp.kind = "notext"
  THEN CallWait(MarkKeyErrorStates(states, c.keyIndex, NoTextError), cur, c)
  ELSE CallReturn(states, cur, c, resp.text)

\* ------------------------------------------------------------ the generator
RunIds == 1..MaxRuns

TopicIds == { "A", "B", "Z" }

\* The question types of the component's select
QuestionTypes == { "MCQ", "MSQ", "NAT", "Subjective" }

Max(a, b) == IF a > b THEN a ELSE b

\* s.slice(-n)
SliceLast(s, n) == SubSeq(s, Max(1, Len(s) - n + 1), Len(s))

Range(s) == { s[i] : i \in DOMAIN s }

\* The value of a local that is assigned once: values holds that value for
\* the one value of what it is computed from
Only(values) == CHOOSE value \in values : TRUE

RECURSIVE Reverse(_)
Reverse(s) == IF s = <<>> THEN <<>> ELSE Append(Reverse(Tail(s)), Head(s))

\* The rows of new_questions of one topic, oldest first
RECURSIVE RowsOf(_, _)
RowsOf(table, topic) ==
  IF table = <<>> THEN <<>>
  ELSE IF Head(table).topic_id = topic
       THEN <<Head(table)>> \o RowsOf(Tail(table), topic)
       ELSE RowsOf(Tail(table), topic)

\* The statements of a list of questions or rows, in order
Statements(items) == [i \in DOMAIN items |-> items[i].question_statement]

\* existingQuestionsContext: the entries joined by a blank line. An entry is
\* modelled by one character, its statement, and the separator by one
\* character, 0 (the empty statement, which no entry carries).
RECURSIVE JoinEntries(_)
JoinEntries(entries) ==
  IF Len(entries) <= 1 THEN entries
  ELSE <<Head(entries), 0>> \o JoinEntries(Tail(entries))

\* What the provider can put in a question. The statement is a number:
\* 0 the empty string, -1 a string of blanks, above 0 a text; options is the
\* length of the options array, -1 when there is none (null or missing).
Question(statement, type, options, answer, wrong) ==
  [question_statement |-> statement, question_type |-> type, options |-> options,
   answer |-> answer, is_wrong |-> wrong, topic_id |-> NULL]

NoQuestion == Question(0, NULL, -1, FALSE, FALSE)

\* The response text: whitespace, text that does not parse to an array of
\* questions, or one question
BlankText == [form |-> "blank", question |-> NoQuestion]
MalformedText == [form |-> "malformed", question |-> NoQuestion]
QuestionText(q) == [form |-> "questions", question |-> q]

\* generateQuestionsForTopic, the checkpoints on a parsed question
GqtAccepts(q) ==
  /\ q.question_statement # 0 /\ q.question_type # NULL /\ q.answer
  /\ (q.question_type \in {"MCQ", "MSQ"}) => q.options = 4

\* validateQuestionAnswer
ValidateQuestionAnswer(q) ==
  /\ q.question_statement \notin {0, -1}
  /\ q.question_type \in {"MCQ", "MSQ", "NAT", "Subjective"}
  /\ (q.question_type \in {"MCQ", "MSQ"}) => q.options \notin {-1, 0}

\* Checks that take any options array for a selected MCQ or MSQ
RunAccepts_AnyOptions(q) ==
  /\ ValidateQuestionAnswer(q)
  /\ ~q.is_wrong

\* Checks that let a self-flagged question through
RunAccepts_IgnoresFlag(q) ==
  /\ ValidateQuestionAnswer(q)
  /\ (questionType \in {"MCQ", "MSQ"}) => q.options = 4

\* generateNewQuestions, the checks between the response and the insert
RunAccepts(q) ==
  /\ ValidateQuestionAnswer(q)
  /\ (questionType \in {"MCQ", "MSQ"}) => q.options = 4
  /\ ~q.is_wrong

\* generateNewQuestions, const isWrong = question.is_wrong === true, for a
\* question that has come through the checks before it (a pass keeps the
\* value of the attempt that last got that far for its item)
IsWrong(q) ==
  /\ ValidateQuestionAnswer(q)
  /\ (questionType \in {"MCQ", "MSQ"}) => q.options = 4
  /\ q.is_wrong

\* generateNewQuestions: question.options = null for NAT and Subjective
Prepared(q) ==
  IF questionType \in {"NAT", "Subjective"} THEN [q EXCEPT !.options = -1] ELSE q

\* generateNewQuestions, questionToSave: the columns the claims speak of
\* (is_wrong: isWrong || null, FALSE standing for null)
QuestionToSave(topic, q) ==
  [topic_id |-> topic, question_statement |-> q.question_statement,
   question_type |-> questionType, options |-> q.options, is_wrong |-> q.is_wrong]

\* The locals of one generateNewQuestions pass (indexes 0-based as in the
\* source), the progress.isPaused its closure captured, and for the claims:
\* whether stopGeneration has been invoked since it started
FreeRun ==
  [pc |-> "free", isPaused |-> FALSE, plan |-> <<>>, analyseIndex |-> 0,
   needs |-> <<>>, topicIndex |-> 0, questionIndex |-> 0, attempts |-> 0,
   validQuestionGenerated |-> FALSE, existingQuestionsContext |-> <<>>,
   allExistingQuestions |-> [isNull |-> TRUE, items |-> <<>>],
   allGeneratedQuestions |-> <<>>, totalGenerated |-> 0, task |-> 0,
   question |-> NoQuestion, isWrong |-> FALSE, stopped |-> FALSE]

\* The locals of one generateQuestionsForTopic invocation, the pass awaiting
\* it (0: none, its timeout has fired), and for the claims: the statement
\* accepted for its topic just before it started (-1: none)
FreeTask ==
  [pc |-> "free", owner |-> 0, topic |-> NULL, attempt |-> 0,
   existingQuestionsContext |-> <<>>, recentQuestions |-> <<>>, owed |-> -1]

\* Everything synchronous code of the generator reads and writes
World ==
  [states |-> API_KEY_STATES, cur |-> currentKeyIndex, call |-> call,
   progress |-> progress, run |-> run, task |-> task,
   justAccepted |-> justAccepted, ok |-> TRUE]

FreeTaskId(w) ==
  IF \E t \in TaskIds : w.task[t].pc = "free"
  THEN CHOOSE t \in TaskIds :
         w.task[t].pc = "free" /\ \A u \in TaskIds : w.task[u].pc = "free" => t <= u
  ELSE 0

FreeRunId ==
  IF \E r \in RunIds : run[r].pc = "free"
  THEN CHOOSE r \in RunIds : run[r].pc = "free" /\ \A u \in RunIds : run[u].pc = "free" => r <= u
  ELSE 0

Topic(rec) == rec.needs[rec.topicIndex + 1]

\* The prompt of generateQuestionsForTopic is never blank
GqtPrompt == <<"p">>

\* generateQuestionsForTopic, the head of its while loop up to the await of
\* callGeminiAPI: attempt++, the prompt, the call. The loop test holds here:
\* attempt is 0 at entry, and the catch block waits (and continues) only when
\* attempt < maxRetries.
GqtAttempt(world, t) ==
  Only({ LET o == CallEnter(w.states, w.cur, GqtPrompt)
         IN  [w EXCEPT !.states = o.states, !.cur = o.cur, !.call[t] = o.call,
                       !.task[t].attempt = @ + 1, !.task[t].pc = "call"] :
         w \in {world} })

\* generateNewQuestions: allGeneratedQuestions.filter(q => q.topic_id ===
\* topic.id).map(q => q.question_statement)
RecentQuestions(rec) == Statements(RowsOf(rec.allGeneratedQuestions, Topic(rec).id))

\* generateNewQuestions, one pass of the attempts loop up to the await of
\* Promise.race: attempts++, generateQuestionsForTopic(...) started
RunAttempt(world, r) ==
  Only({ LET rec == w.run[r]
             t == FreeTaskId(w)
             topic == Topic(rec).id
             started == [FreeTask EXCEPT
                           !.pc = "call", !.owner = r, !.topic = topic,
                           !.existingQuestionsContext = rec.existingQuestionsContext,
                           !.recentQuestions = RecentQuestions(rec),
                           !.owed = w.justAccepted[topic]]
         IN  IF t = 0 THEN [w EXCEPT !.ok = FALSE]
             ELSE GqtAttempt([w EXCEPT !.run[r].attempts = @ + 1, !.run[r].pc = "race",
                                       !.run[r].task = t, !.task[t] = started,
                                       !.justAccepted[topic] = -1], t) :
         w \in {world} })

\* generateNewQuestions, an item once the pause test is passed: the first
\* pass of its attempts loop
RunFirstAttempt(world, r) ==
  Only({ RunAttempt([w EXCEPT !.run[r].validQuestionGenerated = FALSE,
                              !.run[r].attempts = 0, !.run[r].isWrong = FALSE], r) :
         w \in {world} })

\* generateNewQuestions, the top of the items loop: the pause test on the
\* progress of the closure; the poll every second while it is set
RunItem(world, r) ==
  Only({ IF w.run[r].isPaused
         THEN [w EXCEPT !.run[r].pc = "paused"]
         ELSE RunFirstAttempt(w, r) :
         w \in {world} })

\* generateNewQuestions returns; startGeneration, the finally block
RunEnd(world, r) ==
  Only({ [w EXCEPT !.run[r] = FreeRun,
                   !.progress = [isGenerating |-> FALSE, isPaused |-> FALSE]] :
         w \in {world} })

\* generateNewQuestions, the top of the topics loop up to the first query
RunTopic(world, r) ==
  Only({ [w EXCEPT !.run[r].pc = "load", !.run[r].questionIndex = 0] :
         w \in {world} })

\* generateNewQuestions, the end of a topic: 3 s before the next one, the end
\* of the pass after the last
RunTopicDone(world, r) ==
  Only({ IF w.run[r].topicIndex < Len(w.run[r].needs) - 1
         THEN [w EXCEPT !.run[r].pc = "topicwait"]
         ELSE RunEnd(w, r) :
         w \in {world} })

\* generateNewQuestions, the end of an item: questionIndex++ and the loop test
RunItemDone(world, r) ==
  Only({ LET next == [w EXCEPT !.run[r].questionIndex = @ + 1]
         IN  IF next.run[r].questionIndex < Topic(next.run[r]).questionsToGenerate
             THEN RunItem(next, r)
             ELSE RunTopicDone(next, r) :
         w \in {world} })

\* An attempts loop that tests nothing but the number of attempts
RunRetry_IgnoresValid(world, r) ==
  Only({ IF w.run[r].attempts < maxAttempts
         THEN RunAttempt(w, r)
         ELSE RunItemDone(w, r) :
         w \in {world} })

\* An attempts loop that tests nothing but validQuestionGenerated
RunRetry_Unbounded(world, r) ==
  Only({ IF ~w.run[r].validQuestionGenerated
         THEN RunAttempt(w, r)
         ELSE RunItemDone(w, r) :
         w \in {world} })

\* generateNewQuestions, the test of the attempts loop
RunRetry(world, r) ==
  Only({ IF ~w.run[r].validQuestionGenerated /\ w.run[r].attempts < maxAttempts
         THEN RunAttempt(w, r)
         ELSE RunItemDone(w, r) :
         w \in {world} })

\* A catch block that gives the pass up when the last attempt has failed
RunCatch_Escalates(world, r) ==
  Only({ IF w.run[r].attempts < maxAttempts
         THEN [w EXCEPT !.run[r].pc = "wait"]
         ELSE RunEnd(w, r) :
         w \in {world} })

\* generateNewQuestions, the catch block of an attempt: 3 s before the next
\* attempt, none after the last
RunCatch(world, r) ==
  Only({ IF w.run[r].attempts < maxAttempts
         THEN [w EXCEPT !.run[r].pc = "wait"]
         ELSE RunRetry(w, r) :
         w \in {world} })

\* generateNewQuestions, from the questions of generateQuestionsForTopic to
\* the insert: a question that fails a check costs 2 s and the attempt
RunAfterGeneration(world, r, q) ==
  Only({ IF RunAccepts(q)
         THEN [w EXCEPT !.run[r].pc = "insert", !.run[r].question = Prepared(q),
                        !.run[r].isWrong = FALSE]
         ELSE [w EXCEPT !.run[r].pc = "wait", !.run[r].isWrong = IsWrong(q)] :
         w \in {world} })

\* generateQuestionsForTopic ends, returning q (ok) or throwing: the pass
\* awaiting it goes on, unless its timeout has fired
GqtFinish(world, t, ok, q) ==
  Only({ LET r == w.task[t].owner
             ended == [w EXCEPT !.task[t] = FreeTask, !.call[t] = IdleCall]
         IN  IF r = 0 THEN ended
             ELSE IF ok THEN RunAfterGeneration([ended EXCEPT !.run[r].task = 0], r, q)
             ELSE RunCatch([ended EXCEPT !.run[r].task = 0], r) :
         w \in {world} })

\* generateQuestionsForTopic, the catch block of an attempt: the wait
\* min(3000 * attempt, 15000) and the next attempt, or past the last attempt
\* the throw that follows the loop
GqtCatch(world, t) ==
  Only({ IF w.task[t].attempt < maxRetries
         THEN [w EXCEPT !.task[t].pc = "wait", !.call[t] = IdleCall]
         ELSE GqtFinish(w, t, FALSE, NoQuestion) :
         w \in {world} })

\* generateQuestionsForTopic, from the end of callGeminiAPI to the return or
\* the catch block: the blank test, the parse, the checkpoints, topic_id
GqtAfterCall(world, t) ==
  Only({ LET c == w.call[t]
         IN  IF c.pc = "threw" THEN GqtCatch(w, t)
             ELSE IF c.result.form = "blank" THEN GqtCatch(w, t)
             ELSE IF c.result.form # "questions" THEN GqtCatch(w, t)
             ELSE IF ~GqtAccepts(c.result.question) THEN GqtCatch(w, t)
             ELSE GqtFinish(w, t, TRUE,
                            [c.result.question EXCEPT !.topic_id = w.task[t].topic]) :
         w \in {world} })

\* generateNewQuestions, the analysis loop from entry analyseIndex on: the
\* topics without quota are skipped up to the next count query; after the
\* last topic the pass ends if nothing is needed and enters the first topic
\* otherwise
RECURSIVE RunAnalyse(_, _)
RunAnalyse(world, r) ==
  Only({ LET rec == w.run[r]
         IN  IF rec.analyseIndex >= Len(rec.plan)
             THEN IF Len(rec.needs) = 0 THEN RunEnd(w, r)
                  ELSE RunTopic([w EXCEPT !.run[r].topicIndex = 0], r)
             ELSE IF rec.plan[rec.analyseIndex + 1].questionsToGenerate = 0
                  THEN RunAnalyse([w EXCEPT !.run[r].analyseIndex = @ + 1], r)
                  ELSE [w EXCEPT !.run[r].pc = "count"] :
         w \in {world} })

\* A step of synchronous code ends: its effects
Commit(w) ==
  /\ w.ok
  /\ API_KEY_STATES' = w.states
  /\ currentKeyIndex' = w.cur
  /\ call' = w.call
  /\ progress' = w.progress
  /\ run' = w.run
  /\ task' = w.task
  /\ justAccepted' = w.justAccepted

\* ------------------------------------------------ calculateTopicQuestions
\* A weightage is a fraction of the course (0.5 is shown as 50.0%); it is
\* modelled in hundredths, so that 0.02 is 2, and the quotient is rounded
\* exactly, as Math.round does: to the nearest integer, a half going up.
NominalWeightage == 2      \* topic.weightage || 0.02
ZeroWeightageTarget == 500 \* totalQuestions >= 500
DefaultTotalQuestions == 30 \* useState<number>(30), parseInt(...) || 30

TopicRecord(id, weightage) == [id |-> id, weightage |-> weightage]

\* Math.round(numerator / denominator), denominator > 0
MathRound(numerator, denominator) ==
  (2 * numerator + denominator) \div (2 * denominator)

\* topics.filter(topic => (topic.weightage || 0) > 0)
TopicsWithWeightage(list) == SelectSeq(list, LAMBDA topic : topic.weightage > 0)

\* topics.filter(topic => (topic.weightage || 0) === 0)
TopicsWithoutWeightage(list) == SelectSeq(list, LAMBDA topic : topic.weightage = 0)

RECURSIVE SumWeightage(_)
\* reduce((sum, topic) => sum + (topic.weightage || 0.02), 0)
SumWeightage(list) ==
  IF list = <<>> THEN 0
  ELSE (IF Head(list).weightage = 0 THEN NominalWeightage ELSE Head(list).weightage)
       + SumWeightage(Tail(list))

\* const totalWeightage = topicsWithWeightage.reduce(...)
TotalWeightage(list) == SumWeightage(TopicsWithWeightage(list))

\* A threshold test that leaves 500 itself out
ShouldGenerateForZeroWeightage_Above(target) == target > ZeroWeightageTarget

\* const shouldGenerateForZeroWeightage = totalQuestions >= 500
ShouldGenerateForZeroWeightage(target) == target >= ZeroWeightageTarget

\* A quota that is rounded down and may be 0
QuestionsForTopic_Floor(weightage, totalWeightage, target) ==
  (weightage * target) \div totalWeightage

\* A quota that is rounded and may be 0
QuestionsForTopic_NoMinimum(weightage, totalWeightage, target) ==
  MathRound(weightage * target, totalWeightage)

\* Math.max(1, Math.round((topicWeightage / totalWeightage) * totalQuestions))
QuestionsForTopic(weightage, totalWeightage, target) ==
  Max(1, MathRound(weightage * target, totalWeightage))

CalculateTopicQuestions(list, target) ==
  LET totalWeightage == TotalWeightage(list)
      shouldGenerateForZeroWeightage == ShouldGenerateForZeroWeightage(target)
      extraQuestionsCount ==
        IF shouldGenerateForZeroWeightage THEN Len(TopicsWithoutWeightage(list)) ELSE 0
      result ==
        [i \in DOMAIN list |->
           [id |-> list[i].id,
            weightage |-> list[i].weightage,
            questionsToGenerate |->
              IF list[i].weightage = 0
              THEN (IF shouldGenerateForZeroWeightage THEN 1 ELSE 0)
              ELSE QuestionsForTopic(list[i].weightage, totalWeightage, target)]]
  IN  [topics |-> result,
       totalQuestionsToGenerate |-> target + extraQuestionsCount,
       extraQuestionsCount |-> extraQuestionsCount]

\* ------------------------------------------------------- the statistics view
\* QuestionStats is rendered with totalTarget = totalQuestions; its states are
\* useState<TopicStats[]>([]) and useState({ existing: 0, remaining: 0,
\* pyqCount: 0 }).
IdleStats ==
  [topicStats |-> <<>>, totals |-> [existing |-> 0, remaining |-> 0, pyqCount |-> 0]]

\* select('*', { count: 'exact', head: true }).eq('topic_id', topic.id)
\*   .eq('question_type', questionType) on new_questions
ExistingCount(table, topic, type) ==
  Cardinality({ n \in DOMAIN table :
                  table[n].topic_id = topic /\ table[n].question_type = type })

\* select('*', { count: 'exact', head: true }).eq('topic_id', topic.id) on
\* questions_topic_wise
PyqCount(reference, topic) ==
  Cardinality({ n \in DOMAIN reference : reference[n].topic_id = topic })

RECURSIVE StatsWeightage(_)
\* loadStats: topicsWithWeightage.reduce((sum, t) => sum + (t.weightage || 0.02), 0)
\* over topics.filter(t => (t.weightage || 0) > 0)
StatsWeightage(list) ==
  IF list = <<>> THEN 0
  ELSE (IF Head(list).weightage > 0
        THEN (IF Head(list).weightage = 0 THEN NominalWeightage
              ELSE Head(list).weightage)
        ELSE 0)
       + StatsWeightage(Tail(list))

\* loadStats, the body of the loop over the topics: the target of the topic,
\* the two counts and what remains
TopicStat(topic, totalWeightage, totalTarget, table, type, reference) ==
  LET target ==
        IF topic.weightage = 0
        THEN (IF totalTarget >= ZeroWeightageTarget THEN 1 ELSE 0)
        ELSE Max(1, MathRound(topic.weightage * totalTarget, totalWeightage))
      existing == ExistingCount(table, topic.id, type)
  IN  [topicId |-> topic.id, target |-> target, existing |-> existing,
       remaining |-> Max(0, target - existing),
       pyqCount |-> PyqCount(reference, topic.id)]

RECURSIVE StatsTotals(_)
\* loadStats: totalExisting += existing; totalRemaining += remaining;
\* totalPYQs += pyqs
StatsTotals(list) ==
  IF list = <<>> THEN IdleStats.totals
  ELSE LET rest == StatsTotals(Tail(list))
       IN  [existing |-> Head(list).existing + rest.existing,
            remaining |-> Head(list).remaining + rest.remaining,
            pyqCount |-> Head(list).pyqCount + rest.pyqCount]

\* loadStats with the queries answered: the topics of the course are list,
\* the prop totalTarget is that of the render whose loadStats runs; without
\* topics setStats([]) and the totals stay
LoadStats(view, list, totalTarget, table, type, reference) ==
  IF list = <<>> THEN [view EXCEPT !.topicStats = <<>>]
  ELSE LET totalWeightage == StatsWeightage(list)
           topicStats ==
             [i \in DOMAIN list |->
                TopicStat(list[i], totalWeightage, totalTarget, table, type,
                          reference)]
       IN  [topicStats |-> SelectSeq(topicStats, LAMBDA stat : stat.target > 0),
            totals |-> StatsTotals(topicStats)]

\* The component as mounted: no topics loaded, 30 questions asked for
IdlePlan ==
  /\ topics = <<>>
  /\ totalQuestions = DefaultTotalQuestions
  /\ calculationResult = CalculateTopicQuestions(<<>>, DefaultTotalQuestions)
  /\ stats = IdleStats

\* ------------------------------------------------------------- the texts
\* A text is a sequence of characters, a character a string: itself, or the
\* name of a character that is not printed. The regular expressions and
\* string methods of the source are computed on these sequences.
Backslash == "\\"
DoubleQuote == "\""

Digits == { "0", "1", "2", "3", "4", "5", "6", "7", "8", "9" }
OctalDigits == { "0", "1", "2", "3", "4", "5", "6", "7" }
HexDigits == Digits \cup { "a", "b", "c", "d", "e", "f", "A", "B", "C", "D", "E", "F" }

\* \s of a regular expression and the characters trim() removes
WhiteSpace == { " ", "TAB", "LF", "CR", "FF", "VT", "NBSP" }

\* [\x00-\x08\x0B-\x0C\x0E-\x1F\x7F]
ControlCharacters == { "NUL", "BEL", "VT", "FF", "ESC", "DEL" }

\* [\x00-\x1F\x7F-\x9F]
ControlCharactersAll == ControlCharacters \cup { "TAB", "LF", "CR", "NEL" }

\* [\x00-\x09\x0B-\x1F\x7F-\x9F]
ControlCharactersButLF == ControlCharactersAll \ { "LF" }

\* toLowerCase on the letters the patterns with flag i name
LowerCase(c) ==
  CASE c = "J" -> "j" [] c = "S" -> "s" [] c = "O" -> "o" [] c = "N" -> "n"
    [] c = "A" -> "a" [] c = "V" -> "v" [] c = "C" -> "c" [] c = "R" -> "r"
    [] c = "I" -> "i" [] c = "P" -> "p" [] c = "T" -> "t" [] OTHER -> c

\* text has pattern at position i (from 1)
HasAt(text, i, pattern) ==
  /\ i >= 1 /\ i + Len(pattern) - 1 <= Len(text)
  /\ \A k \in 1..Len(pattern) : text[i + k - 1] = pattern[k]

\* the same with flag i
HasAtIgnoringCase(text, i, pattern) ==
  /\ i >= 1 /\ i + Len(pattern) - 1 <= Len(text)
  /\ \A k \in 1..Len(pattern) : LowerCase(text[i + k - 1]) = pattern[k]

\* the least number of a set of numbers that is not empty
Least(numbers) ==
  Only({ CHOOSE k \in set : \A j \in set : k <= j : set \in {numbers} })

\* the greatest number of a set of numbers that is not empty
Greatest(numbers) ==
  Only({ CHOOSE k \in set : \A j \in set : k >= j : set \in {numbers} })

\* the number of characters of a class that text has from position i on
RunLength(text, i, class) ==
  Only({ Least({ k \in from..(Len(text) + 1) :
                   k = Len(text) + 1 \/ text[k] \notin class }) - from :
         from \in {i} })

\* the same, at most limit
RunUpTo(text, i, class, limit) ==
  Only({ IF n > limit THEN limit ELSE n : n \in {RunLength(text, i, class)} })

\* the number of characters of a class that text has right before position i
RunLengthBefore(text, i, class) ==
  Only({ to - 1 - Greatest({0} \cup { k \in 1..(to - 1) : text[k] \notin class }) :
         to \in {i} })

\* String.prototype.substring(start, end), positions from 0
Substring(text, start, end) ==
  LET within(position) == Max(0, IF position > Len(text) THEN Len(text) ELSE position)
  IN  Only({ SubSeq(text, (IF low < high THEN low ELSE high) + 1, Max(low, high)) :
             low \in {within(start)}, high \in {within(end)} })

\* String.prototype.indexOf of one character, -1 when it is not there
IndexOf(text, c) ==
  IF \E k \in 1..Len(text) : text[k] = c
  THEN Least({ k \in 1..Len(text) : text[k] = c }) - 1 ELSE -1

\* String.prototype.lastIndexOf of one character
LastIndexOf(text, c) == Greatest({0} \cup { k \in 1..Len(text) : text[k] = c }) - 1

\* String.prototype.trim
TrimWhiteSpace(text) ==
  Only({ IF first = Len(text) THEN <<>>
         ELSE SubSeq(text, first + 1,
                     Len(text) - RunLengthBefore(text, Len(text) + 1, WhiteSpace)) :
         first \in {RunLength(text, 1, WhiteSpace)} })

EscapeProtector == <<"_", "_", "_", "E", "S", "C", "A", "P", "E", "_", "_", "_">>
FenceJson == <<"backtick", "backtick", "backtick", "j", "s", "o", "n">>
FenceJavascript == <<"backtick", "backtick", "backtick", "j", "a", "v", "a", "s", "c", "r", "i", "p", "t">>
FenceJs == <<"backtick", "backtick", "backtick", "j", "s">>
Fence == <<"backtick", "backtick", "backtick">>
Json == <<"j", "s", "o", "n">>
Ellipsis == <<"a-circumflex", "euro", "broken-bar">>
ThreeDots == <<".", ".", ".">>
ValidUnicodeOpen == <<"_", "_", "_", "V", "A", "L", "I", "D", "_", "U", "N", "I", "C", "O", "D", "E", "_">>
PlaceholderClose == <<"_", "_", "_">>

DigitCharacters == <<"0", "1", "2", "3", "4", "5", "6", "7", "8", "9">>

\* the digits of a number below 100, as a template literal writes it
Decimal(n) ==
  IF n < 10 THEN <<DigitCharacters[n + 1]>>
  ELSE <<DigitCharacters[(n \div 10) + 1], DigitCharacters[(n % 10) + 1]>>

\* the placeholder ___VALID_UNICODE_${index}___
ValidUnicodePlaceholder(index) ==
  ValidUnicodeOpen \o Decimal(index) \o PlaceholderClose

\* One replace call: the kind of its pattern and what the pattern and the
\* replacement are made of
Literal(pattern, replacement) ==
  [kind |-> "literal", pattern |-> pattern, replacement |-> replacement, class |-> {}]
LiteralIgnoringCase(pattern, replacement) ==
  [kind |-> "literal-i", pattern |-> pattern, replacement |-> replacement, class |-> {}]
EachOf(class, replacement) ==
  [kind |-> "each", pattern |-> <<>>, replacement |-> replacement, class |-> class]
Rule(kind) == [kind |-> kind, pattern |-> <<>>, replacement |-> <<>>, class |-> {}]

\* the characters a backslash may stand before: [^"\\\/bfnrtu] is the rest
EscapeLetters == { DoubleQuote, Backslash, "/", "b", "f", "n", "r", "t", "u" }

\* The length of the match of a rule's pattern at position i of text, 0 when
\* there is none
MatchLength(rule, text, i) ==
  CASE rule.kind = "literal" ->
         IF HasAt(text, i, rule.pattern) THEN Len(rule.pattern) ELSE 0
    [] rule.kind = "literal-i" ->
         IF HasAtIgnoringCase(text, i, rule.pattern) THEN Len(rule.pattern) ELSE 0
    [] rule.kind = "each" -> IF text[i] \in rule.class THEN 1 ELSE 0
    \* /\\u[0-9a-fA-F]{4}/g
    [] rule.kind = "valid-unicode" ->
         IF HasAt(text, i, <<Backslash, "u">>) /\ RunUpTo(text, i + 2, HexDigits, 4) = 4
         THEN 6 ELSE 0
    \* /\\u[^_]/g
    [] rule.kind = "unicode" ->
         IF HasAt(text, i, <<Backslash, "u">>) /\ i + 2 <= Len(text)
            /\ text[i + 2] # "_"
         THEN 3 ELSE 0
    \* /\\u$/g
    [] rule.kind = "unicode-at-end" ->
         IF HasAt(text, i, <<Backslash, "u">>) /\ i + 1 = Len(text) THEN 2 ELSE 0
    \* /,(\s*[}\]])/g and /,\s*([}\]])/g
    [] rule.kind \in {"trailing-comma", "comma-before-close"} ->
         IF text[i] # "," THEN 0
         ELSE Only({ IF i + 1 + blanks <= Len(text) /\ text[i + 1 + blanks] \in {"}", "]"}
                     THEN 2 + blanks ELSE 0 :
                     blanks \in {RunLength(text, i + 1, WhiteSpace)} })
    \* /\s+/g
    [] rule.kind = "spaces" ->
         IF text[i] \in WhiteSpace THEN RunLength(text, i, WhiteSpace) ELSE 0
    \* /\\([^"\\\/bfnrtu])/g
    [] rule.kind = "escape" ->
         IF text[i] = Backslash /\ i + 1 <= Len(text) /\ text[i + 1] \notin EscapeLetters
         THEN 2 ELSE 0
    \* /\\x[0-9a-fA-F]{0,2}/g
    [] rule.kind = "hex" ->
         IF HasAt(text, i, <<Backslash, "x">>)
         THEN 2 + RunUpTo(text, i + 2, HexDigits, 2) ELSE 0
    \* /\\[0-7]{1,3}/g
    [] rule.kind = "octal" ->
         IF text[i] = Backslash /\ i + 1 <= Len(text) /\ text[i + 1] \in OctalDigits
         THEN 1 + RunUpTo(text, i + 1, OctalDigits, 3) ELSE 0
    \* /"\s+:/g, /:\s+"/g, /,\s+"/g, /{\s+"/g: a character, blanks, a character
    [] rule.kind = "blanks-between" ->
         IF text[i] # rule.pattern[1] THEN 0
         ELSE Only({ IF blanks >= 1 /\ i + 1 + blanks <= Len(text)
                        /\ text[i + 1 + blanks] = rule.pattern[2]
                     THEN 2 + blanks ELSE 0 :
                     blanks \in {RunLength(text, i + 1, WhiteSpace)} })
    \* /\[\s+/g: a character, blanks
    [] rule.kind = "blanks-after" ->
         IF text[i] # rule.pattern[1] THEN 0
         ELSE Only({ IF blanks >= 1 THEN 1 + blanks ELSE 0 :
                     blanks \in {RunLength(text, i + 1, WhiteSpace)} })
    \* /\s+\]/g and /\s+}/g: blanks, a character. The blanks are all of a run:
    \* the match starts where the run starts
    [] rule.kind = "blanks-before" ->
         IF text[i] \notin WhiteSpace THEN 0
         ELSE Only({ IF i + blanks <= Len(text) /\ text[i + blanks] = rule.pattern[1]
                     THEN blanks + 1 ELSE 0 :
                     blanks \in {RunLength(text, i, WhiteSpace)} })

\* What the match of length n at position i is replaced with
Replacement(rule, text, i, n) ==
  CASE rule.kind \in {"literal", "literal-i", "each"} -> rule.replacement
    [] rule.kind \in {"unicode", "unicode-at-end"} -> <<"u">>
    [] rule.kind \in {"trailing-comma", "escape"} -> SubSeq(text, i + 1, i + n - 1)
    [] rule.kind = "comma-before-close" -> <<text[i + n - 1]>>
    [] rule.kind = "spaces" -> <<" ">>
    [] rule.kind \in {"hex", "octal"} -> <<>>
    [] rule.kind = "blanks-between" -> rule.pattern
    [] rule.kind \in {"blanks-after", "blanks-before"} -> rule.pattern

\* the first position from i on where the rule's pattern matches, 0 when
\* there is none
NextMatch(rule, text, i) ==
  Only({ IF matches = {} THEN 0 ELSE Least(matches) :
         matches \in {{ k \in i..Len(text) : MatchLength(rule, text, k) > 0 }} })

RECURSIVE ReplaceFrom(_, _, _)
\* text from position i on, every match of the rule replaced, from the left,
\* a match starting where the one before it ended at the earliest
ReplaceFrom(rule, text, i) ==
  Only({ IF k = 0 THEN SubSeq(text, from, Len(text))
         ELSE Only({ SubSeq(text, from, k - 1) \o Replacement(rule, text, k, n)
                       \o ReplaceFrom(rule, text, k + n) :
                     n \in {MatchLength(rule, text, k)} }) :
         from \in {i}, k \in {NextMatch(rule, text, i)} })

\* text.replace(/pattern/g, replacement) and text.split(pattern).join(replacement)
ReplaceAll(rule, text) ==
  IF rule.kind = "each" /\ Len(rule.replacement) = 1
  THEN [k \in 1..Len(text) |->
          IF text[k] \in rule.class THEN rule.replacement[1] ELSE text[k]] \o <<>>
  ELSE IF rule.kind = "each" /\ rule.replacement = <<>>
  THEN SelectSeq(text, LAMBDA c : c \notin rule.class)
  ELSE ReplaceFrom(rule, text, 1)

\* text.replace(pattern, replacement) for a pattern that is a string: the
\* first occurrence
ReplaceFirst(text, pattern, replacement) ==
  Only({ IF i = 0 THEN text
         ELSE SubSeq(text, 1, i - 1) \o replacement
                \o SubSeq(text, i + Len(pattern), Len(text)) :
         i \in {NextMatch(Literal(pattern, replacement), text, 1)} })

\* .replace(/^\s*json\s*/gi, ''): the match there may be at the start
WithoutLeadingJson(text) ==
  Only({ IF HasAtIgnoringCase(text, blanks + 1, Json)
         THEN SubSeq(text, blanks + Len(Json)
                             + RunLength(text, blanks + Len(Json) + 1, WhiteSpace) + 1,
                     Len(text))
         ELSE text :
         blanks \in {RunLength(text, 1, WhiteSpace)} })

\* .replace(/^json\\s*/gi, ''): json, a backslash and any number of s, at the
\* start
WithoutLeadingJsonBackslash(text) ==
  IF HasAtIgnoringCase(text, 1, Json \o <<Backslash>>)
  THEN SubSeq(text, 6 + RunLength(text, 6, {"s", "S"}), Len(text))
  ELSE text

RECURSIVE ProtectUnicodeFrom(_, _, _)
\* sanitizeJsonString, step 4: text from position i on with every valid
\* \uXXXX behind a numbered placeholder, and the sequences taken out
ProtectUnicodeFrom(text, i, validUnicodes) ==
  Only({ IF k = 0
         THEN [cleaned |-> SubSeq(text, from, Len(text)), validUnicodes |-> taken]
         ELSE Only({ [rest EXCEPT !.cleaned = SubSeq(text, from, k - 1)
                                     \o ValidUnicodePlaceholder(Len(taken)) \o @] :
                     rest \in {ProtectUnicodeFrom(text, k + 6,
                                 Append(taken, SubSeq(text, k, k + 5)))} }) :
         from \in {i}, taken \in {validUnicodes},
         k \in {NextMatch(Rule("valid-unicode"), text, i)} })

RECURSIVE RestoreUnicode(_, _, _)
\* validUnicodes.forEach((unicode, index) => cleaned.replace(placeholder, unicode))
RestoreUnicode(text, validUnicodes, index) ==
  IF index >= Len(validUnicodes) THEN text
  ELSE Only({ RestoreUnicode(restored, validUnicodes, index + 1) :
              restored \in {ReplaceFirst(text, ValidUnicodePlaceholder(index),
                                         validUnicodes[index + 1])} })

\* sanitizeJsonString, step 4: every \u that is not followed by four
\* hexadecimal digits loses its backslash and the character after the u
WithValidUnicodeOnly(text) ==
  Only({ Only({ RestoreUnicode(removed, protected.validUnicodes, 0) :
                removed \in {ReplaceAll(Rule("unicode-at-end"),
                                        ReplaceAll(Rule("unicode"), protected.cleaned))} }) :
         protected \in {ProtectUnicodeFrom(text, 1, <<>>)} })

\* One statement of a chain of replacements applied to the text so far
ApplyStep(step, text) ==
  Only({ CASE step.kind = "leading-json" -> WithoutLeadingJson(str)
           [] step.kind = "leading-json-backslash" -> WithoutLeadingJsonBackslash(str)
           [] step.kind = "trim" -> TrimWhiteSpace(str)
           [] step.kind = "valid-unicode-only" -> WithValidUnicodeOnly(str)
           [] OTHER -> ReplaceAll(step, str) :
         str \in {text} })

RECURSIVE ApplySteps(_, _, _, _)
\* the statements first to last of a chain, one after the other
ApplySteps(steps, first, last, text) ==
  IF first = last THEN ApplyStep(steps[first], text)
  ELSE Only({ ApplySteps(steps, ((first + last) \div 2) + 1, last, str) :
              str \in {ApplySteps(steps, first, (first + last) \div 2, text)} })

\* the statements of sanitizeJsonString
SanitizeSteps ==
  << \* step 1: the markdown code blocks
     LiteralIgnoringCase(FenceJson, <<>>),
     LiteralIgnoringCase(FenceJavascript, <<>>),
     LiteralIgnoringCase(FenceJs, <<>>),
     Literal(Fence, <<>>),
     Rule("leading-json"),
     Rule("trim"),
     \* step 2: the escape sequences behind the protector
     Literal(<<Backslash, "n">>, EscapeProtector \o <<"n">>),
     Literal(<<Backslash, "r">>, EscapeProtector \o <<"r">>),
     Literal(<<Backslash, "t">>, EscapeProtector \o <<"t">>),
     Literal(<<Backslash, "f">>, EscapeProtector \o <<"f">>),
     Literal(<<Backslash, "b">>, EscapeProtector \o <<"b">>),
     Literal(<<Backslash, DoubleQuote>>, EscapeProtector \o <<"q", "u", "o", "t", "e">>),
     Literal(<<Backslash, Backslash>>, EscapeProtector \o <<"b", "a", "c", "k", "s", "l", "a", "s", "h">>),
     \* the control characters, the newlines, carriage returns and tabs
     EachOf(ControlCharacters, <<" ">>),
     EachOf({"LF"}, <<" ">>),
     EachOf({"CR"}, <<" ">>),
     EachOf({"TAB"}, <<" ">>),
     \* the protected escape sequences restored
     Literal(EscapeProtector \o <<"n">>, <<Backslash, "n">>),
     Literal(EscapeProtector \o <<"r">>, <<Backslash, "r">>),
     Literal(EscapeProtector \o <<"t">>, <<Backslash, "t">>),
     Literal(EscapeProtector \o <<"f">>, <<Backslash, "f">>),
     Literal(EscapeProtector \o <<"b">>, <<Backslash, "b">>),
     Literal(EscapeProtector \o <<"q", "u", "o", "t", "e">>, <<Backslash, DoubleQuote>>),
     Literal(EscapeProtector \o <<"b", "a", "c", "k", "s", "l", "a", "s", "h">>, <<Backslash, Backslash>>),
     \* step 3: the quotes (the two classes of the source hold the straight
     \* quote and the apostrophe) and the ellipsis
     EachOf({DoubleQuote}, <<DoubleQuote>>),
     EachOf({"apostrophe"}, <<"apostrophe">>),
     Literal(Ellipsis, ThreeDots),
     \* step 4: the unicode escapes
     Rule("valid-unicode-only"),
     \* steps 5 to 8
     Rule("trailing-comma"),
     Rule("spaces"),
     Rule("escape"),
     Rule("hex"),
     Rule("octal"),
     EachOf(ControlCharacters, <<>>) >>

SanitizeJsonString(jsonString) ==
  ApplySteps(SanitizeSteps, 1, Len(SanitizeSteps), jsonString)

\* --------------------------------------------------------------- JSON.parse
\* the white space of JSON
JsonWhiteSpace == { " ", "TAB", "LF", "CR" }

\* U+0000 to U+001F, which a JSON string may not hold
JsonForbidden == { "NUL", "BEL", "VT", "FF", "ESC", "TAB", "LF", "CR" }

\* what may follow the backslash of a JSON string, \u aside
JsonEscapes == { DoubleQuote, Backslash, "/", "b", "f", "n", "r", "t" }

\* the first position from i on that holds no white space
SkipWhiteSpace(text, i) == i + RunLength(text, i, JsonWhiteSpace)

\* the backslash at position p starts an escape sequence
StartsEscape(text, p) ==
  text[p] = Backslash /\ RunLengthBefore(text, p, {Backslash}) % 2 = 0

\* the position after the string that opens at position i, 0 when there is
\* no well-formed string
StringEnd(text, i) ==
  Only({ IF closing = {} THEN 0
         ELSE Only({ IF \A p \in (i + 1)..(k - 1) :
                          /\ text[p] \notin JsonForbidden
                          /\ StartsEscape(text, p) =>
                               \/ text[p + 1] \in JsonEscapes
                               \/ /\ text[p + 1] = "u"
                                  /\ RunUpTo(text, p + 2, HexDigits, 4) = 4
                                  /\ p + 5 < k
                     THEN k + 1 ELSE 0 :
                     k \in {Least(closing)} }) :
         closing \in {{ k \in (i + 1)..Len(text) :
                          /\ text[k] = DoubleQuote
                          /\ RunLengthBefore(text, k, {Backslash}) % 2 = 0 }} })

\* the position after the number that starts at position i, 0 when there is
\* no number
NumberEnd(text, i) ==
  LET int == IF i <= Len(text) /\ text[i] = "-" THEN i + 1 ELSE i
  IN  Only({
        LET frac == IF text[int] = "0" THEN int + 1 ELSE int + digits
        IN  Only({
              LET exp == IF fraction = -1 THEN frac ELSE frac + 1 + fraction
                  sign == IF exp + 1 <= Len(text) /\ text[exp + 1] \in {"+", "-"}
                          THEN 1 ELSE 0
              IN  Only({ IF digits = 0 \/ fraction = 0 \/ exponent = 0 THEN 0
                         ELSE IF exponent = -1 THEN exp ELSE exp + 1 + sign + exponent :
                         exponent \in {IF exp <= Len(text) /\ text[exp] \in {"e", "E"}
                                       THEN RunLength(text, exp + 1 + sign, Digits)
                                       ELSE -1} }) :
              fraction \in {IF frac <= Len(text) /\ text[frac] = "."
                            THEN RunLength(text, frac + 1, Digits) ELSE -1} }) :
        digits \in {RunLength(text, int, Digits)} })

Closer(open) == IF open = "[" THEN "]" ELSE "}"

RECURSIVE ValueEnd(_, _)
RECURSIVE ItemsEnd(_, _, _)

\* the position after the value that starts at position i, 0 when there is
\* no value
ValueEnd(text, i) ==
  IF i > Len(text) THEN 0
  ELSE CASE text[i] = DoubleQuote -> StringEnd(text, i)
         [] text[i] \in {"[", "{"} ->
              Only({ IF first <= Len(text) /\ text[first] = Closer(text[i])
                     THEN first + 1 ELSE ItemsEnd(text, first, text[i]) :
                     first \in {SkipWhiteSpace(text, i + 1)} })
         [] text[i] \in Digits \cup {"-"} -> NumberEnd(text, i)
         [] HasAt(text, i, <<"t", "r", "u", "e">>) -> i + 4
         [] HasAt(text, i, <<"f", "a", "l", "s", "e">>) -> i + 5
         [] HasAt(text, i, <<"n", "u", "l", "l">>) -> i + 4
         [] OTHER -> 0

\* the position after the closing bracket of the array or object whose next
\* element or member starts at position i, 0 when it is not well-formed
ItemsEnd(text, i, open) ==
  Only({
    LET colon == IF key = 0 THEN 0 ELSE SkipWhiteSpace(text, key)
        value == IF open = "[" THEN i
                 ELSE IF colon = 0 \/ colon > Len(text) \/ text[colon] # ":" THEN 0
                 ELSE SkipWhiteSpace(text, colon + 1)
    IN  Only({
          IF end = 0 THEN 0
          ELSE Only({ IF next > Len(text) THEN 0
                      ELSE IF text[next] = Closer(open) THEN next + 1
                      ELSE IF text[next] = ","
                      THEN Only({ ItemsEnd(text, following, open) :
                                  following \in {SkipWhiteSpace(text, next + 1)} })
                      ELSE 0 :
                      next \in {SkipWhiteSpace(text, end)} }) :
          end \in {IF value = 0 THEN 0 ELSE ValueEnd(text, value)} }) :
    key \in {IF open = "{" /\ i <= Len(text) /\ text[i] = DoubleQuote
             THEN StringEnd(text, i) ELSE 0} })

\* the number of quotes before position p that open or close a string
QuotesBefore(text, p) ==
  Cardinality({ k \in 1..(p - 1) :
                  text[k] = DoubleQuote /\ RunLengthBefore(text, k, {Backslash}) % 2 = 0 })

\* The value a well-formed text stands for, written as the text without the
\* white space between its tokens
ValueOf(text) ==
  Only({ [k \in 1..Cardinality(kept) |->
            text[CHOOSE p \in kept : Cardinality({ q \in kept : q < p }) = k - 1]] \o <<>> :
         kept \in {{ p \in 1..Len(text) :
                       text[p] \notin JsonWhiteSpace \/ QuotesBefore(text, p) % 2 = 1 }} })

NoValue == <<>>
Returned(value) == [threw |-> FALSE, value |-> value, message |-> "null"]
Thrown(message) == [threw |-> TRUE, value |-> NoValue, message |-> message]

\* JSON.parse: the value, or a SyntaxError
JsonParse(text) ==
  Only({ Only({ IF end # 0 /\ SkipWhiteSpace(source, end) = Len(source) + 1
                THEN Returned(ValueOf(source))
                ELSE Thrown("not valid JSON") :
                end \in {ValueEnd(source, SkipWhiteSpace(source, 1))} }) :
         source \in {text} })

\* ---------------------------------------------------------- parseJsonRobust
OpenChar(expectedType) == IF expectedType = "array" THEN "[" ELSE "{"
CloseChar(expectedType) == IF expectedType = "array" THEN "]" ELSE "}"

\* text.match(/\[[\s\S]*\]/) or text.match(/\{[\s\S]*\}/): the match runs from
\* the first opening character to the last closing one; <<>> stands for null
\* (a match holds two characters at least)
MatchBrackets(text, expectedType) ==
  Only({ IF firstIdx = -1 \/ lastIdx < firstIdx THEN <<>>
         ELSE Substring(source, firstIdx, lastIdx + 1) :
         source \in {text},
         firstIdx \in {IndexOf(text, OpenChar(expectedType))},
         lastIdx \in {LastIndexOf(text, CloseChar(expectedType))} })

\* Strategy 1: direct extraction and sanitization
Strategy1(response, expectedType) ==
  Only({ IF match = <<>> THEN Thrown("No JSON found in response")
         ELSE JsonParse(SanitizeJsonString(match)) :
         match \in {MatchBrackets(response, expectedType)} })

\* Strategy 2: remove everything before the first bracket
Strategy2(response, expectedType) ==
  Only({ IF startIdx = -1 THEN Thrown("No opening bracket found")
         ELSE JsonParse(SanitizeJsonString(Substring(response, startIdx, Len(response)))) :
         startIdx \in {IndexOf(response, OpenChar(expectedType))} })

\* Strategy 3: extract between the first and the last matching brackets
Strategy3(response, expectedType) ==
  Only({ IF firstIdx = -1 \/ lastIdx = -1 \/ lastIdx <= firstIdx
         THEN Thrown("Invalid bracket positions")
         ELSE JsonParse(SanitizeJsonString(Substring(response, firstIdx, lastIdx + 1))) :
         firstIdx \in {IndexOf(response, OpenChar(expectedType))},
         lastIdx \in {LastIndexOf(response, CloseChar(expectedType))} })

\* the statements of strategy 4 before its match
AggressiveSteps ==
  << LiteralIgnoringCase(FenceJson, <<>>),
     LiteralIgnoringCase(FenceJavascript, <<>>),
     LiteralIgnoringCase(FenceJs, <<>>),
     Literal(Fence, <<>>),
     Rule("leading-json-backslash"),
     Rule("trim"),
     \* the entries of escapeMap, in their order
     Literal(<<Backslash, "n">>, <<"_", "_", "_", "N", "E", "W", "L", "I", "N", "E", "_", "_", "_">>),
     Literal(<<Backslash, "r">>, <<"_", "_", "_", "R", "E", "T", "U", "R", "N", "_", "_", "_">>),
     Literal(<<Backslash, "t">>, <<"_", "_", "_", "T", "A", "B", "_", "_", "_">>),
     Literal(<<Backslash, DoubleQuote>>, <<"_", "_", "_", "Q", "U", "O", "T", "E", "_", "_", "_">>),
     Literal(<<Backslash, Backslash>>, <<"_", "_", "_", "B", "A", "C", "K", "S", "L", "A", "S", "H", "_", "_", "_">>),
     Literal(<<Backslash, "f">>, <<"_", "_", "_", "F", "O", "R", "M", "F", "E", "E", "D", "_", "_", "_">>),
     Literal(<<Backslash, "b">>, <<"_", "_", "_", "B", "A", "C", "K", "S", "P", "A", "C", "E", "_", "_", "_">>),
     EachOf(ControlCharactersAll, <<" ">>),
     Literal(<<"_", "_", "_", "N", "E", "W", "L", "I", "N", "E", "_", "_", "_">>, <<Backslash, "n">>),
     Literal(<<"_", "_", "_", "R", "E", "T", "U", "R", "N", "_", "_", "_">>, <<Backslash, "r">>),
     Literal(<<"_", "_", "_", "T", "A", "B", "_", "_", "_">>, <<Backslash, "t">>),
     Literal(<<"_", "_", "_", "Q", "U", "O", "T", "E", "_", "_", "_">>, <<Backslash, DoubleQuote>>),
     Literal(<<"_", "_", "_", "B", "A", "C", "K", "S", "L", "A", "S", "H", "_", "_", "_">>, <<Backslash, Backslash>>),
     Literal(<<"_", "_", "_", "F", "O", "R", "M", "F", "E", "E", "D", "_", "_", "_">>, <<Backslash, "f">>),
     Literal(<<"_", "_", "_", "B", "A", "C", "K", "S", "P", "A", "C", "E", "_", "_", "_">>, <<Backslash, "b">>),
     EachOf({DoubleQuote}, <<DoubleQuote>>),
     EachOf({"apostrophe"}, <<"apostrophe">>),
     Literal(Ellipsis, ThreeDots),
     Rule("spaces") >>

\* Strategy 4: ultra-aggressive cleaning with markdown removal
Strategy4(response, expectedType) ==
  Only({ IF match = <<>> THEN Thrown("No JSON after aggressive cleaning")
         ELSE JsonParse(match) :
         match \in {MatchBrackets(ApplySteps(AggressiveSteps, 1, Len(AggressiveSteps),
                                             response),
                                  expectedType)} })

ProtectedOpen == <<"_", "_", "_", "P", "R", "O", "T", "E", "C", "T", "E", "D", "_">>

\* the placeholder ___PROTECTED_${protectionCounter++}___
ProtectedPlaceholder(protectionCounter) ==
  ProtectedOpen \o Decimal(protectionCounter) \o PlaceholderClose

RECURSIVE ProtectFrom(_, _, _, _)
\* str from position i on with every occurrence of an escape sequence behind
\* a placeholder of its own, and the protectionMap with the new entries
ProtectFrom(sequence, str, i, protectionMap) ==
  Only({ IF k = 0 THEN [str |-> SubSeq(str, from, Len(str)), protectionMap |-> map]
         ELSE Only({ [rest EXCEPT !.str = SubSeq(str, from, k - 1)
                                     \o ProtectedPlaceholder(Len(map)) \o @] :
                     rest \in {ProtectFrom(sequence, str, k + Len(sequence),
                                 Append(map, [placeholder |-> ProtectedPlaceholder(Len(map)),
                                              original |-> sequence]))} }) :
         from \in {i}, map \in {protectionMap},
         k \in {NextMatch(Literal(sequence, <<>>), str, i)} })

\* the escape sequences strategy 5 protects, in their order
ProtectedSequences ==
  << <<Backslash, DoubleQuote>>, <<Backslash, Backslash>>, <<Backslash, "n">>,
     <<Backslash, "r">>, <<Backslash, "t">>, <<Backslash, "f">>, <<Backslash, "b">> >>

RECURSIVE ProtectEach(_, _)
\* str and the protectionMap after the sequences from the index-th on have
\* been protected
ProtectEach(protected, index) ==
  IF index > Len(ProtectedSequences) THEN protected
  ELSE Only({ ProtectEach(next, index + 1) :
              next \in {ProtectFrom(ProtectedSequences[index], protected.str, 1,
                                    protected.protectionMap)} })

RECURSIVE RestoreProtected(_, _, _)
\* protectionMap.forEach((original, placeholder) => str.split(placeholder).join(original))
RestoreProtected(str, protectionMap, index) ==
  IF index > Len(protectionMap) THEN str
  ELSE Only({ RestoreProtected(restored, protectionMap, index + 1) :
              restored \in {ReplaceAll(Literal(protectionMap[index].placeholder,
                                               protectionMap[index].original), str)} })

Between(first, second) ==
  [kind |-> "blanks-between", pattern |-> <<first, second>>, replacement |-> <<>>, class |-> {}]
After(c) == [kind |-> "blanks-after", pattern |-> <<c>>, replacement |-> <<>>, class |-> {}]
Before(c) == [kind |-> "blanks-before", pattern |-> <<c>>, replacement |-> <<>>, class |-> {}]

\* the statements of strategy 5 between the protection and the restoration
RebuildSteps ==
  << \* step 2: the control characters
     EachOf(ControlCharactersButLF, <<" ">>),
     \* step 3: the formatting
     Rule("spaces"),
     Rule("comma-before-close"),
     Between(DoubleQuote, ":"),
     Between(":", DoubleQuote),
     Between(",", DoubleQuote),
     Between("{", DoubleQuote),
     After("["),
     Before("]"),
     Before("}") >>

\* Strategy 5: rebuild the JSON
Strategy5(response, expectedType) ==
  Only({ IF firstIdx = -1 \/ lastIdx = -1 THEN Thrown("Cannot find JSON boundaries")
         ELSE Only({ JsonParse(RestoreProtected(
                                 ApplySteps(RebuildSteps, 1, Len(RebuildSteps), protected.str),
                                 protected.protectionMap, 1)) :
                     protected \in {ProtectEach([str |-> Substring(response, firstIdx,
                                                                   lastIdx + 1),
                                                 protectionMap |-> <<>>], 1)} }) :
         firstIdx \in {IndexOf(response, OpenChar(expectedType))},
         lastIdx \in {LastIndexOf(response, CloseChar(expectedType))} })

\* the depth of the brackets after the character at position i (from 1), for
\* a scan that starts at position start
Depth(text, start, i, expectedType) ==
  Cardinality({ k \in start..i : text[k] = OpenChar(expectedType) })
    - Cardinality({ k \in start..i : text[k] = CloseChar(expectedType) })

\* Strategy 6: smart extraction with bracket balancing
Strategy6(response, expectedType) ==
  Only({ IF startIdx = -1 THEN Thrown("No opening bracket found")
         ELSE Only({ IF balanced = {} THEN Thrown("No matching closing bracket found")
                     ELSE JsonParse(SanitizeJsonString(
                            Substring(response, startIdx, Least(balanced)))) :
                     balanced \in {{ i \in (startIdx + 1)..Len(response) :
                                       Depth(response, startIdx + 1, i, expectedType) = 0 }} }) :
         startIdx \in {IndexOf(response, OpenChar(expectedType))} })

StrategyCount == 6

\* The strategies in the reverse of their order
Strategy_Reversed(i, response, expectedType) ==
  CASE i = 6 -> Strategy1(response, expectedType)
    [] i = 5 -> Strategy2(response, expectedType)
    [] i = 4 -> Strategy3(response, expectedType)
    [] i = 3 -> Strategy4(response, expectedType)
    [] i = 2 -> Strategy5(response, expectedType)
    [] i = 1 -> Strategy6(response, expectedType)

\* strategies[i - 1]()
Strategy(i, response, expectedType) ==
  CASE i = 1 -> Strategy1(response, expectedType)
    [] i = 2 -> Strategy2(response, expectedType)
    [] i = 3 -> Strategy3(response, expectedType)
    [] i = 4 -> Strategy4(response, expectedType)
    [] i = 5 -> Strategy5(response, expectedType)
    [] i = 6 -> Strategy6(response, expectedType)

FailedToParse == "Failed to parse AI response. Please try again."

RECURSIVE TryStrategies(_, _, _, _)
\* The loop of parseJsonRobust from strategy i on: what it returns or throws
\* (the message of an Error is the parts of its template literal, the fixed
\* text and the values put in), and the errors it has collected
TryStrategies(response, expectedType, i, errors) ==
  IF i > StrategyCount
  THEN [threw |-> TRUE, value |-> NoValue, message |-> <<FailedToParse>>,
        errors |-> errors]
  ELSE Only({ IF ~outcome.threw
              THEN [threw |-> FALSE, value |-> outcome.value, message |-> <<>>,
                    errors |-> errors]
              ELSE Only({ TryStrategies(response, expectedType, i + 1, collected) :
                          collected \in {Append(errors, [strategy |-> i,
                                                         message |-> outcome.message])} }) :
              outcome \in {Strategy(i, response, expectedType)} })

ParseJsonRobust(response, expectedType) == TryStrategies(response, expectedType, 1, <<>>)

\* no response of the provider is being parsed
IdleParse ==
  [pc |-> "idle", expectedType |-> "array", value |-> NoValue, message |-> <<>>,
   errors |-> <<>>]

IdleText == geminiResponse = <<>> /\ cleaned = <<>> /\ sanitized = 0 /\ parsed = IdleParse

\* --------------------------------------------------- generatePYQSolutions
maxSolveRetries == 5    \* generateSolutionsForPYQs: maxRetries

\* A row of questions_topic_wise: the columns generatePYQSolutions reads or
\* writes and, standing for the others, question_statement. An answer or a
\* solution that is null or '' is ""
PyqRow(id, topic, answer, solution, slot, part) ==
  [id |-> id, topic_id |-> topic, question_statement |-> id, answer |-> answer,
   solution |-> solution, slot |-> slot, part |-> part]

\* The columns of an update that are not set
NotSet == "not set"

\* updateData = { answer, solution }, with slot and part if selected
UpdateData(solution, slot, part) ==
  [answer |-> solution.answer, solution |-> solution.solution,
   slot |-> IF slot # "" THEN slot ELSE NotSet,
   part |-> IF part # "" THEN part ELSE NotSet]

\* supabase.from('questions_topic_wise').update(updateData).eq('id', pyq.id),
\* on the row it matches
Updated(row, updateData) ==
  [row EXCEPT !.answer = updateData.answer, !.solution = updateData.solution,
              !.slot = IF updateData.slot # NotSet THEN updateData.slot ELSE @,
              !.part = IF updateData.part # NotSet THEN updateData.part ELSE @]

\* .or('solution.is.null,solution.eq.,answer.is.null,answer.eq.')
WithoutSolution(row) == row.solution = "" \/ row.answer = ""

\* pyqsWithoutSolutions, enriched and filtered: the rows of the course's
\* topics that lack an answer or a solution
EnrichedPYQs(table, topicIds) ==
  SelectSeq(table, LAMBDA row : row.topic_id \in topicIds /\ WithoutSolution(row))

\* What the provider answers a solution request with: text that does not
\* parse, or an array of solutions
SolutionsText(solutions) == [form |-> "solutions", solutions |-> solutions]

NewSolution == [answer |-> "B", solution |-> "steps"]

GoodSolutions == { SolutionsText(<<NewSolution>>) }

FaultySolutions ==
  { MalformedText, SolutionsText(<<>>),
    SolutionsText(<<[answer |-> "", solution |-> "steps"]>>),
    SolutionsText(<<[answer |-> "B", solution |-> ""]>>) }

\* generateSolutionsForPYQs: if (!solution.answer || !solution.solution) throw
ValidSolutions(solutions) ==
  \A k \in DOMAIN solutions : solutions[k].answer # "" /\ solutions[k].solution # ""

\* The locals of generatePYQSolutions (i 0-based as in the source), the
\* progress.isPaused its closure captured, and attempt of the
\* generateSolutionsForPYQs invocation it awaits
FreePyq ==
  [pc |-> "free", isPaused |-> FALSE, topicIds |-> {}, enrichedPYQs |-> <<>>,
   i |-> 0, solutionsGenerated |-> 0, attempt |-> 0,
   updateData |-> UpdateData([answer |-> "", solution |-> ""], "", "")]

\* Everything synchronous code of generatePYQSolutions reads and writes
Solving ==
  [states |-> API_KEY_STATES, cur |-> currentKeyIndex, call |-> call[1],
   progress |-> progress, pyq |-> pyq, toast |-> completeToast]

\* generatePYQSolutions returns; startGeneration, the finally block
PyqEnd(w) ==
  [w EXCEPT !.pyq = FreePyq,
            !.progress = [isGenerating |-> FALSE, isPaused |-> FALSE]]

\* generatePYQSolutions, past its loop: the toast with the count
PyqComplete(w) == PyqEnd([w EXCEPT !.toast = w.pyq.solutionsGenerated])

\* generateSolutionsForPYQs, the head of its while loop up to the await of
\* callGeminiAPI
SolveAttempt(w) ==
  LET o == CallEnter(w.states, w.cur, GqtPrompt)
  IN  [w EXCEPT !.states = o.states, !.cur = o.cur, !.call = o.call,
                !.pyq.attempt = @ + 1, !.pyq.pc = "solve"]

\* generatePYQSolutions, the top of its loop: the loop test, the pause test
\* on the progress of the closure, generateSolutionsForPYQs([pyq], notes)
PyqItem(w) ==
  IF w.pyq.i >= Len(w.pyq.enrichedPYQs) THEN PyqComplete(w)
  ELSE IF w.pyq.isPaused THEN [w EXCEPT !.pyq.pc = "paused"]
  ELSE SolveAttempt([w EXCEPT !.pyq.attempt = 0])

\* A catch block that gives the batch up
PyqCatch_Aborts(w) == PyqEnd([w EXCEPT !.call = IdleCall])

\* generatePYQSolutions, the catch block of an item: the next item at once
PyqCatch(w) == PyqItem([w EXCEPT !.pyq.i = @ + 1, !.call = IdleCall])

\* generateSolutionsForPYQs, the catch block of an attempt: the wait
\* min(3000 * attempt, 15000) and the next attempt, or past the last attempt
\* the throw that follows the loop
SolveCatch(w) ==
  IF w.pyq.attempt < maxSolveRetries
  THEN [w EXCEPT !.pyq.pc = "retry", !.call = IdleCall]
  ELSE PyqCatch(w)

\* generatePYQSolutions, the solutions are there: the update of the first,
\* or with none the 8 s delay
PyqSolved(w, solutions) ==
  IF Len(solutions) > 0
  THEN [w EXCEPT !.pyq.pc = "update", !.call = IdleCall,
                 !.pyq.updateData = UpdateData(solutions[1], selectedSlot, selectedPart)]
  ELSE [w EXCEPT !.pyq.pc = "delay", !.call = IdleCall]

\* generateSolutionsForPYQs, from the end of callGeminiAPI to the return or
\* the catch block: the parse and the check of every solution
SolveAfterCall(w) ==
  LET c == w.call
  IN  IF c.pc = "threw" THEN SolveCatch(w)
      ELSE IF c.result.form # "solutions" THEN SolveCatch(w)
      ELSE IF ~ValidSolutions(c.result.solutions) THEN SolveCatch(w)
      ELSE PyqSolved(w, c.result.solutions)

\* A step of generatePYQSolutions ends: its effects
CommitSolving(w) ==
  /\ API_KEY_STATES' = w.states
  /\ currentKeyIndex' = w.cur
  /\ call' = [call EXCEPT ![1] = w.call]
  /\ progress' = w.progress
  /\ pyq' = w.pyq
  /\ completeToast' = w.toast

\* The component as mounted: new questions are to be generated, no slot and
\* no part selected
IdleSolutions ==
  /\ selectedSlot = "" /\ selectedPart = ""
  /\ questions_topic_wise = <<>>
  /\ pyq = FreePyq
  /\ generatedCount = [pyq |-> 0]
  /\ completeToast = -1

\* ------------------------------------------------------------ the validator
\* The validator component's progress state, the fields the workflow reads
\* or its claims name
IdleValidationProgress ==
  [isValidating |-> FALSE, isPaused |-> FALSE, totalQuestions |-> 0,
   questionsValidated |-> 0, questionsMarkedWrong |-> 0, questionsMarkedCorrect |-> 0]

NoValidation == [threw |-> FALSE, isWrong |-> FALSE]

\* The locals of startValidation: progress is the component's progress state
\* of the render whose handler was invoked, questions the ids (positions in
\* the table) of the rows loaded, i 0-based as in the source; alone is set
\* when one iteration is followed on its own, pressed once Pause or Stop has
\* been pressed during the run
FreeValidator ==
  [pc |-> "free", progress |-> IdleValidationProgress, questions |-> <<>>, i |-> 0,
   validation |-> NoValidation, questionsMarkedWrong |-> 0,
   questionsMarkedCorrect |-> 0, alone |-> FALSE, pressed |-> FALSE]

\* A response text that parses to { isWrong, reason }
ValidationText(isWrong) == [form |-> "validation", isWrong |-> isWrong]

\* A validateQuestionWithGeminiAI without its outer catch block
ValidateQuestionWithGeminiAI_Rethrows(c) ==
  IF c.pc = "threw" THEN [threw |-> TRUE, isWrong |-> FALSE]
  ELSE IF c.result.form # "validation" THEN [threw |-> FALSE, isWrong |-> FALSE]
  ELSE [threw |-> FALSE, isWrong |-> c.result.isWrong]

\* validateQuestionWithGeminiAI, from the end of callGeminiAPI on: the outer
\* catch block, the catch block of parseJsonRobust, return validation
ValidateQuestionWithGeminiAI(c) ==
  IF c.pc = "threw" THEN [threw |-> FALSE, isWrong |-> FALSE]
  ELSE IF c.result.form # "validation" THEN [threw |-> FALSE, isWrong |-> FALSE]
  ELSE [threw |-> FALSE, isWrong |-> c.result.isWrong]

\* Everything synchronous code of startValidation reads and writes; the
\* callGeminiAPI invocation stays in call[1] until the next one is made
Validating ==
  [states |-> API_KEY_STATES, cur |-> currentKeyIndex, call |-> call[1],
   progress |-> validationProgress, validator |-> validator]

\* startValidation returns: the finally block
ValidatorEnd(world) ==
  Only({ [w EXCEPT !.validator.pc = "free",
                   !.progress.isValidating = FALSE, !.progress.isPaused = FALSE] :
         w \in {world} })

\* startValidation, an iteration past its tests: setProgress, then
\* validateQuestionWithGeminiAI(question) up to the await of callGeminiAPI
ValidatorSubmit(world) ==
  Only({ LET o == CallEnter(w.states, w.cur, GqtPrompt)
         IN  [w EXCEPT !.states = o.states, !.cur = o.cur, !.call = o.call,
                       !.progress.questionsValidated = w.validator.i + 1,
                       !.validator.pc = "validate"] :
         w \in {world} })

\* startValidation, the top of its loop: the loop test, the pause test and
\* the stop test, both on the progress of the closure
ValidatorItem(world) ==
  Only({ IF w.validator.i >= Len(w.validator.questions) THEN ValidatorEnd(w)
         ELSE IF w.validator.progress.isPaused THEN [w EXCEPT !.validator.pc = "paused"]
         ELSE IF ~w.validator.progress.isValidating THEN ValidatorEnd(w)
         ELSE ValidatorSubmit(w) :
         w \in {world} })

\* startValidation, validateQuestionWithGeminiAI has ended: the update of
\* is_wrong is sent, or the catch block waits 5 s
ValidatorAfterCall(world) ==
  Only({ LET validation == ValidateQuestionWithGeminiAI(w.call)
         IN  IF validation.threw THEN [w EXCEPT !.validator.pc = "failed"]
             ELSE [w EXCEPT !.validator.validation = validation,
                            !.validator.pc = "update"] :
         w \in {world} })

\* A step of startValidation ends: its effects
CommitValidating(w) ==
  /\ API_KEY_STATES' = w.states
  /\ currentKeyIndex' = w.cur
  /\ call' = [call EXCEPT ![1] = w.call]
  /\ validationProgress' = w.progress
  /\ validator' = w.validator

\* The validator component as mounted
IdleValidator ==
  validationProgress = IdleValidationProgress /\ validator = FreeValidator

\* What the claims on the generator leave as the component mounted it
IdleRest ==
  /\ IdlePlan /\ IdleSolutions /\ IdleText /\ generationMode = "new_questions"
  /\ IdleValidator

\* The module as loaded: let API_KEY_STATES = []; let currentKeyIndex = 0
InitModule ==
  /\ API_KEY_STATES = <<>>
  /\ currentKeyIndex = 0
  /\ pending = -1
  /\ selections = <<>>
  /\ neverFailed = TRUE
  /\ exampleRun = 0
  /\ lastOp = Op("load", -1, NULL, FALSE, FALSE)
  /\ call = [t \in TaskIds |-> IdleCall]

\* The component as mounted: nothing is being generated
IdleGenerator ==
  /\ progress = [isGenerating |-> FALSE, isPaused |-> FALSE]
  /\ run = [r \in RunIds |-> FreeRun]
  /\ task = [t \in TaskIds |-> FreeTask]
  /\ justAccepted = [topic \in TopicIds |-> -1]
  /\ passes = 0
  /\ issued = 0
  /\ faults = 0

\* Passes that may overlap, with few failures
RunLimits ==
  [passes |-> MaxRuns, questions |-> MaxQuestions, overlap |-> MaxOverlapQuestions,
   faults |-> MaxFaults, classes |-> {"database", "timer", "provider", "text"},
   free |-> {}]

\* One pass with many failures
ItemLimits ==
  [passes |-> 1, questions |-> ItemQuestions, overlap |-> ItemQuestions,
   faults |-> ItemFaults, classes |-> {"text", "timer"}, free |-> {}]

\* One pass whose 60 s timers fire whenever the provider has not answered
LiveLimits ==
  [passes |-> 1, questions |-> LiveQuestions, overlap |-> LiveQuestions,
   faults |-> LiveFaults, classes |-> {"database", "provider", "text"},
   free |-> {"timer"}]

InitPool == InitModule /\ IdleGenerator /\ rows = <<>> /\ limits = RunLimits
            /\ questionType = "MCQ" /\ IdleRest

PoolConfigure ==
  /\ \E keys \in KeyLists : SetGeminiApiKeys(keys)
  /\ UNCHANGED <<clientVars, orchVars>>

PoolSelect == GetNextGeminiKey /\ UNCHANGED <<clientVars, orchVars>>

PoolFailure ==
  /\ \E i \in KeyIndexes, m \in PoolMessages : MarkKeyError(i, m)
  /\ UNCHANGED <<clientVars, orchVars>>

PoolSuccess ==
  /\ \E i \in KeyIndexes : MarkKeySuccess(i)
  /\ UNCHANGED <<clientVars, orchVars>>

NextPool == PoolConfigure \/ PoolSelect \/ PoolFailure \/ PoolSuccess

SpecPool == InitPool /\ [][NextPool]_vars

\* ------------------------------------------- the configuration on its own
\* setGeminiApiKeys called with lists of blank entries and of two different
\* keys padded with blanks, on a fresh pool and on pools in use.
ConfigStrings == InputStrings \cup { <<"b", " ">> }

ConfigKeyLists == [1..MaxKeys -> ConfigStrings]

ConfigConfigure ==
  /\ \E keys \in ConfigKeyLists : SetGeminiApiKeys(keys)
  /\ UNCHANGED <<clientVars, orchVars>>

ConfigSelect ==
  /\ TotalUsage(API_KEY_STATES) < ConfigSelections
  /\ PoolSelect

\* the request made with the key handed out fails
ConfigFailure ==
  /\ MarkKeyError(pending, FetchError)
  /\ UNCHANGED <<clientVars, orchVars>>

NextConfig == ConfigConfigure \/ ConfigSelect \/ ConfigFailure

SpecConfig == InitPool /\ [][NextConfig]_vars

\* --------------------------------------- the completion client on its own
\* One caller invoking callGeminiAPI again and again on a pool configured
\* with up to ClientKeys credentials.
ClientKeyLists == { keys \in KeyLists : Len(ValidKeys(keys)) <= ClientKeys }

Prompts == { <<" ">>, <<"p">> }

ClientResponses == FailureResponses \cup { TextResponse("text") }

ClientTask == CHOOSE t \in TaskIds : \A u \in TaskIds : t <= u

WithinClientBudget == TotalUsage(API_KEY_STATES) < ClientSelections

ClientSet(o) ==
  /\ API_KEY_STATES' = o.states
  /\ currentKeyIndex' = o.cur
  /\ call' = [call EXCEPT ![ClientTask] = o.call]
  /\ UNCHANGED <<harnessVars, orchVars>>

\* startGeneration, checkpoint 4: setGeminiApiKeys(validApiKeys)
ClientConfigure ==
  \E keys \in ClientKeyLists :
    /\ ~InFlight(call[ClientTask])
    /\ API_KEY_STATES' = ConfiguredPool(API_KEY_STATES, keys)
    /\ currentKeyIndex' = ConfiguredCursor(currentKeyIndex, keys)
    /\ UNCHANGED <<harnessVars, clientVars, orchVars>>

\* callGeminiAPI(prompt) is invoked
ClientCall ==
  \E prompt \in Prompts :
    /\ ~InFlight(call[ClientTask])
    /\ WithinClientBudget
    /\ ClientSet(CallEnter(API_KEY_STATES, currentKeyIndex, prompt))

\* the provider answers the request of the call
ClientRespond ==
  \E resp \in ClientResponses :
    /\ call[ClientTask].pc = "fetch"
    /\ WithinClientBudget
    /\ ClientSet(CallHandle(API_KEY_STATES, currentKeyIndex, call[ClientTask], resp))

\* the 10 s wait of the call is over
ClientResume ==
  /\ call[ClientTask].pc = "wait"
  /\ WithinClientBudget
  /\ ClientSet(CallLoop(API_KEY_STATES, currentKeyIndex, call[ClientTask]))

NextClient == ClientConfigure \/ ClientCall \/ ClientRespond \/ ClientResume

SpecClient == InitPool /\ [][NextClient]_vars

\* ------------------------------------------------------ the generator's steps
\* The key lists of the component: at most RunKeys valid entries
UiKeyLists == { keys \in KeyLists : Len(ValidKeys(keys)) <= RunKeys }

PlanEntry(id, n) == [id |-> id, questionsToGenerate |-> n]

\* The results of calculateTopicQuestions handed to generateNewQuestions
Plans ==
  { <<PlanEntry("A", MaxQuota)>>,
    <<PlanEntry("Z", 0), PlanEntry("B", 1), PlanEntry("A", 1)>> }

Row(topic, statement) == [topic_id |-> topic, question_statement |-> statement]

\* What the provider answers a generation request with: a question that
\* passes every check, or a fault: a failed request, a text that is blank or
\* does not parse, a question that fails a check
GoodText(statement) == QuestionText(Question(statement, "MCQ", 4, TRUE, FALSE))

FaultyTexts(statement) ==
  { BlankText, MalformedText,
    QuestionText(Question(statement, "MCQ", 3, TRUE, FALSE)),
    QuestionText(Question(statement, "MCQ", 4, FALSE, FALSE)),
    QuestionText(Question(statement, "MCQ", 4, TRUE, TRUE)),
    QuestionText(Question(statement, "NAT", -1, TRUE, FALSE)),
    QuestionText(Question(statement, "Essay", -1, TRUE, FALSE)) }

ProviderFaults ==
  { resp \in FailureResponses :
      resp.kind = "http" /\ resp.status \in {400, 429} /\ resp.message = KeyNotValid }

\* The question texts the provider produces in one behaviour
QuestionBudget == IF passes > 1 THEN limits.overlap ELSE limits.questions

\* A step of the environment that may be a failure of one of the classes
\* "database", "timer", "provider" (a response that is no text) and "text" (a
\* text that is no acceptable question); the failures of the classes of
\* limits.free are not counted
Fault(class, isFault) ==
  LET counted == isFault /\ class \notin limits.free
  IN  /\ isFault => class \in limits.classes \cup limits.free
      /\ counted => faults < limits.faults
      /\ faults' = IF counted THEN faults + 1 ELSE faults

Running(rec) == rec.pc # "free"

\* startGeneration, up to the first await of generateNewQuestions
StartGeneration ==
  \E keys \in UiKeyLists, plan \in Plans :
    /\ ~progress.isGenerating
    /\ generationMode = "new_questions"
    /\ FreeRunId # 0
    /\ passes < limits.passes
    /\ passes > 0 => issued < limits.overlap
    /\ passes' = passes + 1
    /\ IF Len(ValidKeys(keys)) = 0
       THEN UNCHANGED <<poolVars, clientVars, progress, run, task, justAccepted>>
       ELSE LET r == FreeRunId
                entered ==
                  [World EXCEPT
                     !.states = ConfiguredPool(API_KEY_STATES, keys),
                     !.cur = ConfiguredCursor(currentKeyIndex, keys),
                     !.progress = [isGenerating |-> TRUE, isPaused |-> FALSE],
                     !.run[r] = [FreeRun EXCEPT !.pc = "count", !.plan = plan,
                                                !.isPaused = progress.isPaused]]
            IN  Commit(RunAnalyse(entered, r))
    /\ UNCHANGED <<harnessVars, limits, restVars, rows, issued, faults>>

\* pauseGeneration
PauseGeneration ==
  /\ progress.isGenerating
  /\ progress' = [progress EXCEPT !.isPaused = ~progress.isPaused]
  /\ UNCHANGED <<poolVars, harnessVars, clientVars, limits, restVars, run, task, rows,
                 justAccepted,
                 passes, issued, faults>>

\* stopGeneration
StopGeneration ==
  /\ progress.isGenerating
  /\ progress' = [isGenerating |-> FALSE, isPaused |-> FALSE]
  /\ run' = [r \in RunIds |->
               IF Running(run[r]) /\ ~run[r].stopped
               THEN [run[r] EXCEPT !.stopped = TRUE]
               ELSE run[r]]
  /\ UNCHANGED <<poolVars, harnessVars, clientVars, limits, restVars, task, rows,
                 justAccepted,
                 passes, issued, faults>>

\* A remainder that takes no account of the rows there are
RemainingToGenerate_IgnoresExisting(quota, existingCount) == quota

\* generateNewQuestions: Math.max(0, topic.questionsToGenerate - existingCount)
RemainingToGenerate(quota, existingCount) == Max(0, quota - existingCount)

\* A list of needs that has the topic counted last first
KeepTopic_AtFront(needs, entry, remainingToGenerate) ==
  IF remainingToGenerate > 0
  THEN <<PlanEntry(entry.id, remainingToGenerate)>> \o needs
  ELSE needs

\* generateNewQuestions: if (remainingToGenerate > 0) topicsWithActualNeeds.push(...)
KeepTopic(needs, entry, remainingToGenerate) ==
  IF remainingToGenerate > 0
  THEN Append(needs, PlanEntry(entry.id, remainingToGenerate))
  ELSE needs

\* generateNewQuestions: getExistingQuestionsCount answers (an error counts 0)
RunCount(r) ==
  \E error \in BOOLEAN :
    /\ run[r].pc = "count"
    /\ Fault("database", error)
    /\ LET entry == run[r].plan[run[r].analyseIndex + 1]
           matching == SelectSeq(RowsOf(rows, entry.id),
                                 LAMBDA row : row.question_type = questionType)
           existingCount == IF error THEN 0 ELSE Len(matching)
           remainingToGenerate ==
             RemainingToGenerate(entry.questionsToGenerate, existingCount)
           counted ==
             [World EXCEPT
                !.run[r].needs = KeepTopic(@, entry, remainingToGenerate),
                !.run[r].analyseIndex = @ + 1]
       IN  Commit(RunAnalyse(counted, r))
    /\ UNCHANGED <<harnessVars, limits, restVars, rows, passes, issued>>

\* generateNewQuestions: the queries at the top of a topic answer (the rows
\* of the topic newest first, null on an error), then the first item
RunLoad(r) ==
  \E error \in BOOLEAN :
    /\ run[r].pc = "load"
    /\ Fault("database", error)
    /\ LET items == IF error THEN <<>> ELSE Reverse(RowsOf(rows, Topic(run[r]).id))
           loaded ==
             [World EXCEPT
                !.run[r].allExistingQuestions = [isNull |-> error, items |-> items],
                !.run[r].existingQuestionsContext = JoinEntries(Statements(items))]
       IN  Commit(RunItem(loaded, r))
    /\ UNCHANGED <<harnessVars, limits, restVars, rows, passes, issued>>

\* generateNewQuestions: a timer of the pass fires (the wait after an
\* attempt, the wait between topics, the pause poll)
RunResume(r) ==
  /\ run[r].pc \in {"wait", "topicwait", "paused"}
  /\ IF run[r].pc = "wait" THEN Commit(RunRetry(World, r))
     ELSE IF run[r].pc = "topicwait"
     THEN Commit(RunTopic([World EXCEPT !.run[r].topicIndex = @ + 1], r))
     ELSE IF run[r].isPaused THEN Commit(World)
     ELSE Commit(RunFirstAttempt(World, r))
  /\ UNCHANGED <<harnessVars, limits, restVars, rows, passes, issued, faults>>

\* An insert error that sends the pass back to the attempts loop
RunInsertFailed_Retries(world, r) ==
  Only({ RunRetry([w EXCEPT !.run[r].question = NoQuestion], r) :
         w \in {world} })

\* generateNewQuestions, the insert has answered with an error: break
RunInsertFailed(world, r) ==
  Only({ RunItemDone([w EXCEPT !.run[r].question = NoQuestion], r) :
         w \in {world} })

\* generateNewQuestions: the insert answers
RunInsert(r) ==
  \E error \in BOOLEAN :
    /\ run[r].pc = "insert"
    /\ Fault("database", error)
    /\ LET q == run[r].question
           topic == Topic(run[r]).id
           saved ==
             [World EXCEPT
                !.run[r].question = NoQuestion,
                !.run[r].totalGenerated = @ + 1,
                !.run[r].allGeneratedQuestions = Append(@, q),
                !.run[r].validQuestionGenerated = TRUE,
                !.run[r].allExistingQuestions.items =
                   IF run[r].allExistingQuestions.isNull THEN @
                   ELSE <<Row(topic, q.question_statement)>> \o @,
                !.run[r].pc = "wait",
                !.justAccepted[topic] = q.question_statement]
       IN  IF error
           THEN /\ Commit(RunInsertFailed(World, r))
                /\ UNCHANGED rows
           ELSE /\ rows' = Append(rows, QuestionToSave(topic, q))
                /\ IF run[r].allExistingQuestions.isNull
                   THEN Commit(RunCatch(saved, r))
                   ELSE Commit(saved)
    /\ UNCHANGED <<harnessVars, limits, restVars, passes, issued>>

\* A 60 s timer whose rejection is not awaited: the pass goes on awaiting
\* generateQuestionsForTopic
RunTimeout_Ignored(r) ==
  /\ run[r].pc = "race"
  /\ UNCHANGED vars

\* generateNewQuestions: the 60 s timer wins Promise.race; the
\* generateQuestionsForTopic invocation goes on without the pass
RunTimeout(r) ==
  /\ run[r].pc = "race"
  /\ Fault("timer", TRUE)
  /\ Commit(RunCatch([World EXCEPT !.task[run[r].task].owner = 0,
                                   !.run[r].task = 0], r))
  /\ UNCHANGED <<harnessVars, limits, restVars, rows, passes, issued>>

\* callGeminiAPI in generateQuestionsForTopic: the provider answers
TaskRespond(t) ==
  \E resp \in ProviderFaults \cup { TextResponse(text) : text \in FaultyTexts(issued + 1) }
                \cup { TextResponse(GoodText(issued + 1)) } :
    LET good == resp = TextResponse(GoodText(issued + 1))
        o == CallHandle(API_KEY_STATES, currentKeyIndex, call[t], resp)
        answered == [World EXCEPT !.states = o.states, !.cur = o.cur, !.call[t] = o.call]
    IN  /\ task[t].pc = "call" /\ call[t].pc = "fetch"
        /\ Fault(IF resp.kind = "text" THEN "text" ELSE "provider", ~good)
        /\ good => issued < QuestionBudget
        /\ issued' = IF good THEN issued + 1 ELSE issued
        /\ IF Ended(o.call) THEN Commit(GqtAfterCall(answered, t)) ELSE Commit(answered)
        /\ UNCHANGED <<harnessVars, limits, restVars, rows, passes>>

\* generateQuestionsForTopic: a wait is over (the 10 s of callGeminiAPI, the
\* wait before the next attempt) or callGeminiAPI had ended at once
TaskResume(t) ==
  /\ \/ task[t].pc = "wait"
     \/ task[t].pc = "call" /\ call[t].pc # "fetch"
  /\ IF task[t].pc = "wait" THEN Commit(GqtAttempt(World, t))
     ELSE IF call[t].pc = "wait"
     THEN LET o == CallLoop(API_KEY_STATES, currentKeyIndex, call[t])
              resumed == [World EXCEPT !.states = o.states, !.cur = o.cur,
                                       !.call[t] = o.call]
          IN  IF Ended(o.call) THEN Commit(GqtAfterCall(resumed, t))
              ELSE Commit(resumed)
     ELSE Commit(GqtAfterCall(World, t))
  /\ UNCHANGED <<harnessVars, limits, restVars, rows, passes, issued, faults>>

Next ==
  \/ StartGeneration
  \/ PauseGeneration
  \/ StopGeneration
  \/ \E r \in RunIds : RunCount(r)
  \/ \E r \in RunIds : RunLoad(r)
  \/ \E r \in RunIds : RunResume(r)
  \/ \E r \in RunIds : RunInsert(r)
  \/ \E r \in RunIds : RunTimeout(r)
  \/ \E t \in TaskIds : TaskRespond(t)
  \/ \E t \in TaskIds : TaskResume(t)

\* The component opened on an empty new_questions table
Init == InitModule /\ IdleGenerator /\ rows = <<>> /\ limits = RunLimits
            /\ questionType = "MCQ" /\ IdleRest

Spec == Init /\ [][Next]_vars

\* ----------------------------------------------------- a pass that fails
\* One generateNewQuestions pass, left alone by the buttons, in which the
\* provider, the timer and the database fail up to ItemFaults times.
InitItem == InitModule /\ IdleGenerator /\ rows = <<>> /\ limits = ItemLimits
            /\ questionType = "MCQ" /\ IdleRest

NextItem ==
  \/ StartGeneration
  \/ \E r \in RunIds : RunCount(r)
  \/ \E r \in RunIds : RunLoad(r)
  \/ \E r \in RunIds : RunResume(r)
  \/ \E r \in RunIds : RunInsert(r)
  \/ \E r \in RunIds : RunTimeout(r)
  \/ \E t \in TaskIds : TaskRespond(t)
  \/ \E t \in TaskIds : TaskResume(t)

SpecItem == InitItem /\ [][NextItem]_vars

\* ------------------------------------------------ a pass left to its end
\* One generateNewQuestions pass, left alone by the buttons, whose timers
\* fire: the 60 s timer of Promise.race whenever generateQuestionsForTopic
\* has not ended, the waits of the pass and of callGeminiAPI. The provider
\* and the database answer or do not.
InitLive == InitModule /\ IdleGenerator /\ rows = <<>> /\ limits = LiveLimits
            /\ questionType = "MCQ" /\ IdleRest

\* callGeminiAPI in a generateQuestionsForTopic invocation whose pass has
\* timed out: the provider never answers the request, the invocation stays
\* at its await for ever and is no longer followed
TaskDrop(t) ==
  /\ task[t].pc = "call" /\ call[t].pc = "fetch" /\ task[t].owner = 0
  /\ Commit([World EXCEPT !.task[t] = FreeTask, !.call[t] = IdleCall])
  /\ UNCHANGED <<harnessVars, limits, restVars, rows, passes, issued, faults>>

NextLive ==
  \/ StartGeneration
  \/ \E r \in RunIds : RunCount(r)
  \/ \E r \in RunIds : RunLoad(r)
  \/ \E r \in RunIds : RunResume(r)
  \/ \E r \in RunIds : RunInsert(r)
  \/ \E r \in RunIds : RunTimeout(r)
  \/ \E t \in TaskIds : TaskRespond(t)
  \/ \E t \in TaskIds : TaskResume(t)
  \/ \E t \in TaskIds : TaskDrop(t)

\* setTimeout callbacks run: the timers of the pass and of the invocations
TimersFire ==
  /\ \A r \in RunIds : WF_vars(RunResume(r)) /\ WF_vars(RunTimeout(r))
  /\ \A t \in TaskIds : WF_vars(TaskResume(t)) /\ WF_vars(TaskDrop(t))

SpecLive == InitLive /\ [][NextLive]_vars /\ TimersFire

\* --------------------------------------------- the checks on one question
\* A question of any shape, received for any selected type, taken from the
\* response text through the checks of generateQuestionsForTopic and of
\* generateNewQuestions to the insert; call[1] holds the response.
StatementShapes == { 0, -1, 1 }

OptionCounts == { -1, 0, 3, 4, 5 }

Payloads ==
  { Question(statement, type, options, answer, wrong) :
      statement \in StatementShapes, type \in QuestionTypes \cup {"Essay", NULL},
      options \in OptionCounts, answer \in BOOLEAN, wrong \in BOOLEAN }

InitCheck ==
  /\ InitModule /\ IdleGenerator /\ rows = <<>> /\ limits = ItemLimits
  /\ questionType \in QuestionTypes /\ IdleRest

\* the response is parsed and checked, and the question inserted if it passes
CheckQuestion ==
  \E q \in Payloads :
    LET received == [q EXCEPT !.topic_id = "A"]
    IN  /\ Len(rows) < MaxChecked
        /\ call' = [call EXCEPT ![1] = [IdleCall EXCEPT !.pc = "returned",
                                                        !.result = QuestionText(q)]]
        /\ rows' = IF GqtAccepts(q) /\ RunAccepts(received)
                    THEN Append(rows, QuestionToSave("A", Prepared(received)))
                    ELSE rows
        /\ UNCHANGED <<poolVars, harnessVars, progress, run, task, justAccepted,
                       passes, issued, faults, limits, restVars>>

SpecCheck == InitCheck /\ [][CheckQuestion]_vars

\* ------------------------------ generateQuestionsForTopic called on its own
\* The exported generateQuestionsForTopic invoked directly, before or after
\* setGeminiApiKeys has configured the pool.
TopicConfigure ==
  \E keys \in UiKeyLists :
    /\ API_KEY_STATES' = ConfiguredPool(API_KEY_STATES, keys)
    /\ currentKeyIndex' = ConfiguredCursor(currentKeyIndex, keys)
    /\ UNCHANGED <<harnessVars, clientVars, orchVars>>

\* generateQuestionsForTopic(topic, ...) is invoked for one of the topics: its
\* entry up to the await of callGeminiAPI
TopicGenerate ==
  \E topic \in {"A"} :
    LET t == FreeTaskId(World)
    IN  /\ t # 0
        /\ Commit(GqtAttempt([World EXCEPT
                                !.task[t] = [FreeTask EXCEPT !.pc = "call",
                                                             !.topic = topic]], t))
        /\ UNCHANGED <<harnessVars, limits, restVars, rows, passes, issued, faults>>

NextTopic ==
  \/ TopicConfigure
  \/ TopicGenerate
  \/ \E t \in TaskIds : TaskRespond(t)
  \/ \E t \in TaskIds : TaskResume(t)

SpecTopic == Init /\ [][NextTopic]_vars

\* ------------------------------------------------- the plan of a generation
\* The course's topics are loaded and the number of questions is typed; every
\* render computes calculateTopicQuestions(topics, totalQuestions).
Weightages == { 0, 20, 30, 50 }

\* the weightages of the topics of a course, as order('weightage',
\* { ascending: false }) returns them
LoadedWeightages ==
  { list \in UNION { [1..n -> Weightages] : n \in 0..MaxTopics } :
      \A i \in 1..(Len(list) - 1) : list[i] >= list[i + 1] }

\* what is typed in the field: 0 stands for what parseInt makes NaN or 0 of
TypedTotals == {-1, 0} \cup 1..MaxTarget
                 \cup {DefaultTotalQuestions, ZeroWeightageTarget - 1,
                       ZeroWeightageTarget, ZeroWeightageTarget + 1}

Render ==
  calculationResult' = CalculateTopicQuestions(topics', totalQuestions')

\* A course is selected. loadTopics(courseId): setTopics(data || []). The
\* effect of QuestionStats on [courseId, questionType] runs loadStats, which
\* reads the same topics in the same order and the totalTarget of that render.
LoadTopics ==
  \E list \in LoadedWeightages :
    /\ topics' = [i \in DOMAIN list |-> TopicRecord(i, list[i])]
    /\ UNCHANGED totalQuestions
    /\ Render
    /\ stats' = LoadStats(stats, topics', totalQuestions, rows, questionType,
                          questions_topic_wise)
    /\ UNCHANGED <<poolVars, harnessVars, clientVars, passVars, questionType,
                   generationMode, validatorVars, solutionVars, textVars>>

\* onChange: setTotalQuestions(parseInt(e.target.value) || 30). The prop
\* totalTarget of QuestionStats changes, which is not among the dependencies
\* of its effect: loadStats does not run.
SetTotalQuestions ==
  \E value \in TypedTotals :
    /\ totalQuestions' = IF value = 0 THEN DefaultTotalQuestions ELSE value
    /\ UNCHANGED <<topics, stats>>
    /\ Render
    /\ UNCHANGED <<poolVars, harnessVars, clientVars, passVars, questionType,
                   generationMode, validatorVars, solutionVars, textVars>>

\* onClick={loadStats} of Refresh Stats, which is rendered with the table of
\* the statistics (courseId && stats.length !== 0)
RefreshStats ==
  /\ stats.topicStats # <<>>
  /\ stats' = LoadStats(stats, topics, totalQuestions, rows, questionType,
                        questions_topic_wise)
  /\ UNCHANGED <<topics, totalQuestions, calculationResult>>
  /\ UNCHANGED <<poolVars, harnessVars, clientVars, passVars, questionType,
                 generationMode, validatorVars, solutionVars, textVars>>

NextQuota == LoadTopics \/ SetTotalQuestions \/ RefreshStats

SpecQuota == Init /\ [][NextQuota]_vars

\* ------------------------------------------- the statistics of a stored course
\* The same component over a new_questions table that holds questions of the
\* first two topics already.
StatsRow(topic, type) ==
  [topic_id |-> topic, question_statement |-> 0, question_type |-> type,
   options |-> 4, is_wrong |-> FALSE]

StatsTables ==
  UNION { [1..n -> { StatsRow(topic, type) : topic \in 1..2, type \in {"MCQ", "NAT"} }] :
          n \in 0..MaxStatsRows }

InitStats ==
  /\ InitModule /\ IdleGenerator /\ limits = RunLimits
  /\ questionType = "MCQ" /\ IdleRest
  /\ rows \in StatsTables

SpecStats == InitStats /\ [][NextQuota]_vars

\* ------------------------------------------- the solutions of the PYQs
\* One generatePYQSolutions pass over a table of up to MaxPyqs reference
\* items of the course's topic A and of another course's topic X, with or
\* without answer and solution, with a slot or a part selected or not; the
\* provider and the database fail up to SolveFaults times.
SolveLimits ==
  [passes |-> 1, questions |-> 0, overlap |-> 0, faults |-> SolveFaults,
   classes |-> {"text", "database"}, free |-> {}]

CourseTopicIds == { "A" }

PyqRows(id) ==
  { PyqRow(id, topic, answer, solution, "evening", "two") :
      topic \in {"A", "X"}, answer \in {"", "C"}, solution \in {"", "old"} }

PyqTables ==
  UNION { { table \in [1..n -> UNION { PyqRows(id) : id \in 1..n }] :
              \A id \in 1..n : table[id].id = id } : n \in 0..MaxPyqs }

InitSolutions ==
  /\ InitModule /\ IdleGenerator /\ rows = <<>> /\ limits = SolveLimits
  /\ questionType = "MCQ" /\ generationMode = "pyq_solutions"
  /\ topics = <<TopicRecord("A", 50)>>
  /\ totalQuestions = DefaultTotalQuestions
  /\ calculationResult = CalculateTopicQuestions(topics, totalQuestions)
  /\ selectedSlot \in {"", "morning"}
  /\ selectedPart \in {"", "one"}
  /\ questions_topic_wise \in PyqTables
  /\ pyq = FreePyq
  /\ generatedCount = [pyq |-> 0]
  /\ completeToast = -1
  /\ IdleText
  /\ stats = IdleStats
  /\ IdleValidator

\* startGeneration with generationMode 'pyq_solutions', up to the first await
\* of generatePYQSolutions
StartSolutions ==
  \E keys \in UiKeyLists :
    /\ ~progress.isGenerating
    /\ generationMode = "pyq_solutions"
    /\ pyq.pc = "free"
    /\ passes < limits.passes
    /\ passes' = passes + 1
    /\ IF topics = <<>> \/ Len(ValidKeys(keys)) = 0
       THEN UNCHANGED <<poolVars, progress, pyq, generatedCount>>
       ELSE /\ API_KEY_STATES' = ConfiguredPool(API_KEY_STATES, keys)
            /\ currentKeyIndex' = ConfiguredCursor(currentKeyIndex, keys)
            /\ progress' = [isGenerating |-> TRUE, isPaused |-> FALSE]
            /\ generatedCount' = [generatedCount EXCEPT !.pyq = 0]
            /\ pyq' = [FreePyq EXCEPT !.pc = "topics", !.isPaused = progress.isPaused]
    /\ UNCHANGED <<harnessVars, clientVars, run, task, rows, justAccepted, issued,
                   faults, limits, questionType, generationMode, validatorVars, planVars,
                   selectedSlot, selectedPart, questions_topic_wise, completeToast,
                   textVars>>

\* what generatePYQSolutions leaves alone in every step but the update
SolvingFrame ==
  UNCHANGED <<harnessVars, run, task, rows, justAccepted, passes, issued, limits,
              questionType, generationMode, validatorVars, planVars, selectedSlot, selectedPart,
              textVars>>

\* generatePYQSolutions: the topics of the course are there
PyqTopics ==
  \E outcome \in {"error", "none", "some"} :
    /\ pyq.pc = "topics"
    /\ Fault("database", outcome = "error")
    /\ IF outcome = "some"
       THEN CommitSolving([Solving EXCEPT !.pyq.pc = "all",
                                          !.pyq.topicIds = CourseTopicIds])
       ELSE CommitSolving(PyqEnd(Solving))
    /\ SolvingFrame
    /\ UNCHANGED <<questions_topic_wise, generatedCount>>

\* generatePYQSolutions: the answers and solutions of all PYQs are there
PyqAll ==
  \E error \in BOOLEAN :
    /\ pyq.pc = "all"
    /\ Fault("database", error)
    /\ IF error THEN CommitSolving(PyqEnd(Solving))
       ELSE CommitSolving([Solving EXCEPT !.pyq.pc = "remaining"])
    /\ SolvingFrame
    /\ UNCHANGED <<questions_topic_wise, generatedCount>>

\* generatePYQSolutions: the PYQs without solutions are there; the first item
PyqRemaining ==
  \E error \in BOOLEAN :
    /\ pyq.pc = "remaining"
    /\ Fault("database", error)
    /\ LET enrichedPYQs == EnrichedPYQs(questions_topic_wise, pyq.topicIds)
       IN  IF error \/ enrichedPYQs = <<>>
           THEN CommitSolving(PyqEnd(Solving))
           ELSE CommitSolving(PyqItem([Solving EXCEPT
                                         !.pyq.enrichedPYQs = enrichedPYQs,
                                         !.pyq.i = 0]))
    /\ SolvingFrame
    /\ UNCHANGED <<questions_topic_wise, generatedCount>>

\* callGeminiAPI in generateSolutionsForPYQs: the provider answers
SolveRespond ==
  \E resp \in ProviderFaults \cup { TextResponse(text) : text \in FaultySolutions }
                \cup { TextResponse(text) : text \in GoodSolutions } :
    LET good == resp.kind = "text" /\ resp.text \in GoodSolutions
        o == CallHandle(API_KEY_STATES, currentKeyIndex, call[1], resp)
        answered == [Solving EXCEPT !.states = o.states, !.cur = o.cur, !.call = o.call]
    IN  /\ pyq.pc = "solve" /\ call[1].pc = "fetch"
        /\ Fault(IF resp.kind = "text" THEN "text" ELSE "provider", ~good)
        /\ IF Ended(o.call) THEN CommitSolving(SolveAfterCall(answered))
           ELSE CommitSolving(answered)
        /\ SolvingFrame
        /\ UNCHANGED <<questions_topic_wise, generatedCount>>

\* generateSolutionsForPYQs: a wait is over (the 10 s of callGeminiAPI, the
\* wait before the next attempt) or callGeminiAPI had ended at once
SolveResume ==
  /\ \/ pyq.pc = "retry"
     \/ pyq.pc = "solve" /\ call[1].pc # "fetch"
  /\ IF pyq.pc = "retry" THEN CommitSolving(SolveAttempt(Solving))
     ELSE IF call[1].pc = "wait"
     THEN LET o == CallLoop(API_KEY_STATES, currentKeyIndex, call[1])
              resumed == [Solving EXCEPT !.states = o.states, !.cur = o.cur,
                                         !.call = o.call]
          IN  IF Ended(o.call) THEN CommitSolving(SolveAfterCall(resumed))
              ELSE CommitSolving(resumed)
     ELSE CommitSolving(SolveAfterCall(Solving))
  /\ SolvingFrame
  /\ UNCHANGED <<questions_topic_wise, generatedCount, faults>>

\* generatePYQSolutions: the update answers; the 8 s delay follows
PyqUpdate ==
  \E error \in BOOLEAN :
    /\ pyq.pc = "update"
    /\ Fault("database", error)
    /\ LET id == pyq.enrichedPYQs[pyq.i + 1].id
       IN  IF error
           THEN /\ CommitSolving([Solving EXCEPT !.pyq.pc = "delay"])
                /\ UNCHANGED <<questions_topic_wise, generatedCount>>
           ELSE /\ questions_topic_wise' =
                     [n \in DOMAIN questions_topic_wise |->
                        IF questions_topic_wise[n].id = id
                        THEN Updated(questions_topic_wise[n], pyq.updateData)
                        ELSE questions_topic_wise[n]]
                /\ generatedCount' =
                     [generatedCount EXCEPT !.pyq = pyq.solutionsGenerated + 1]
                /\ CommitSolving([Solving EXCEPT !.pyq.pc = "delay",
                                                 !.pyq.solutionsGenerated = @ + 1])
    /\ SolvingFrame

\* generatePYQSolutions: the 8 s delay is over; the next item
PyqDelay ==
  /\ pyq.pc = "delay"
  /\ CommitSolving(PyqItem([Solving EXCEPT !.pyq.i = @ + 1]))
  /\ SolvingFrame
  /\ UNCHANGED <<questions_topic_wise, generatedCount, faults>>

NextSolutions ==
  \/ StartSolutions
  \/ PyqTopics
  \/ PyqAll
  \/ PyqRemaining
  \/ SolveRespond
  \/ SolveResume
  \/ PyqUpdate
  \/ PyqDelay

SpecSolutions == InitSolutions /\ [][NextSolutions]_vars

\* ------------------------------------------------- the validator workflow
\* The validator component on a new_questions table of up to MaxStored rows
\* of the selected course, flagged or not: up to ValidatePasses validations
\* are started, one at a time, and the Pause and Stop buttons pressed.
StoredRow(statement, wrong) ==
  [topic_id |-> "A", question_statement |-> statement, question_type |-> "MCQ",
   options |-> 4, is_wrong |-> wrong]

StoredTables ==
  { [k \in DOMAIN flags |-> StoredRow(k, flags[k])] \o <<>> :
      flags \in UNION { [1..n -> BOOLEAN] : n \in 0..MaxStored } }

ValidateLimits ==
  [passes |-> ValidatePasses, questions |-> 0, overlap |-> 0,
   faults |-> ValidateFaults, classes |-> {"database", "provider", "text"},
   free |-> {}]

InitValidator ==
  /\ InitModule /\ IdleGenerator /\ limits = ValidateLimits
  /\ rows \in StoredTables
  /\ questionType = "MCQ" /\ IdleRest

\* what startValidation leaves alone in every step but the update
ValidatingFrame ==
  UNCHANGED <<harnessVars, progress, run, task, justAccepted, issued, limits,
              questionType, generationMode, planVars, solutionVars, textVars>>

\* startValidation, up to its first await (the button is rendered while
\* progress.isValidating is unset)
StartValidation ==
  \E selectedCourse \in BOOLEAN :
    /\ ~validationProgress.isValidating
    /\ validator.pc = "free"
    /\ passes < limits.passes
    /\ passes' = passes + 1
    /\ IF ~selectedCourse
       THEN UNCHANGED <<validationProgress, validator>>
       ELSE /\ validationProgress' =
                 [IdleValidationProgress EXCEPT !.isValidating = TRUE]
            /\ validator' = [FreeValidator EXCEPT !.pc = "topics",
                                                  !.progress = validationProgress]
    /\ UNCHANGED <<poolVars, clientVars, rows, faults>>
    /\ ValidatingFrame

\* pauseValidation
PauseValidation ==
  /\ validationProgress.isValidating
  /\ validationProgress' = [validationProgress EXCEPT !.isPaused = ~@]
  /\ validator' = [validator EXCEPT !.pressed = TRUE]
  /\ UNCHANGED <<poolVars, clientVars, rows, passes, faults>>
  /\ ValidatingFrame

\* stopValidation
StopValidation ==
  /\ validationProgress.isValidating
  /\ validationProgress' =
       [validationProgress EXCEPT !.isValidating = FALSE, !.isPaused = FALSE]
  /\ validator' = [validator EXCEPT !.pressed = TRUE]
  /\ UNCHANGED <<poolVars, clientVars, rows, passes, faults>>
  /\ ValidatingFrame

\* startValidation: the topics query answers with an error, with no topic or
\* with the topics of the course
ValidatorTopics ==
  \E answer \in {"error", "none", "topics"} :
    /\ validator.pc = "topics"
    /\ Fault("database", answer = "error")
    /\ IF answer = "topics"
       THEN CommitValidating([Validating EXCEPT !.validator.pc = "questions"])
       ELSE CommitValidating(ValidatorEnd(Validating))
    /\ UNCHANGED <<rows, passes>>
    /\ ValidatingFrame

\* startValidation: the questions query answers with an error or with the
\* rows of the course's topics; then the first iteration
ValidatorQuestions ==
  \E error \in BOOLEAN :
    /\ validator.pc = "questions"
    /\ Fault("database", error)
    /\ LET ids == { k \in DOMAIN rows : rows[k].topic_id \in CourseTopicIds }
           questions == [k \in 1..Cardinality(ids) |->
                           CHOOSE id \in ids : Cardinality({ j \in ids : j < id }) = k - 1]
                        \o <<>>
       IN  IF error \/ questions = <<>>
           THEN CommitValidating(ValidatorEnd(Validating))
           ELSE CommitValidating(ValidatorItem(
                  [Validating EXCEPT !.progress.totalQuestions = Len(questions),
                                     !.validator.questions = questions,
                                     !.validator.i = 0]))
    /\ UNCHANGED <<rows, passes>>
    /\ ValidatingFrame

NextValidator ==
  \/ StartValidation
  \/ PauseValidation
  \/ StopValidation
  \/ ValidatorTopics
  \/ ValidatorQuestions

SpecValidator == InitValidator /\ [][NextValidator]_vars

\* ------------------------------------------- one iteration of the validator
\* The body of an iteration of startValidation followed on its own for a row
\* of the table, from validateQuestionWithGeminiAI(question) to the update
\* of is_wrong, before or after setGeminiApiKeys has configured the pool.
ValidateConfigure ==
  \E keys \in UiKeyLists :
    /\ validator.pc = "free"
    /\ API_KEY_STATES' = ConfiguredPool(API_KEY_STATES, keys)
    /\ currentKeyIndex' = ConfiguredCursor(currentKeyIndex, keys)
    /\ UNCHANGED <<harnessVars, clientVars, orchVars>>

\* the iteration for the question at position k of the loaded rows begins
ValidateStored ==
  \E k \in DOMAIN rows :
    /\ validator.pc = "free"
    /\ passes < limits.passes
    /\ passes' = passes + 1
    /\ CommitValidating(ValidatorSubmit(
         [Validating EXCEPT
            !.progress = [IdleValidationProgress EXCEPT !.isValidating = TRUE,
                                                        !.totalQuestions = Len(rows)],
            !.validator = [FreeValidator EXCEPT
                             !.questions = [j \in DOMAIN rows |-> j] \o <<>>,
                             !.i = k - 1, !.alone = TRUE]]))
    /\ UNCHANGED <<rows, faults>>
    /\ ValidatingFrame

ValidationTexts == { ValidationText(isWrong) : isWrong \in BOOLEAN }

\* callGeminiAPI in validateQuestionWithGeminiAI: the provider answers
ValidatorRespond ==
  \E resp \in FailureResponses \cup { TextResponse(text) : text \in {BlankText, MalformedText} }
                \cup { TextResponse(text) : text \in ValidationTexts } :
    LET good == resp.kind = "text" /\ resp.text \in ValidationTexts
        o == CallHandle(API_KEY_STATES, currentKeyIndex, call[1], resp)
        answered == [Validating EXCEPT !.states = o.states, !.cur = o.cur, !.call = o.call]
    IN  /\ validator.pc = "validate" /\ call[1].pc = "fetch"
        /\ Fault(IF resp.kind = "text" THEN "text" ELSE "provider", ~good)
        /\ IF Ended(o.call) THEN CommitValidating(ValidatorAfterCall(answered))
           ELSE CommitValidating(answered)
        /\ UNCHANGED <<rows, passes>>
        /\ ValidatingFrame

\* callGeminiAPI in validateQuestionWithGeminiAI: its 10 s wait is over, or
\* it had ended at once
ValidatorResume ==
  /\ validator.pc = "validate" /\ call[1].pc # "fetch"
  /\ IF call[1].pc = "wait"
     THEN LET o == CallLoop(API_KEY_STATES, currentKeyIndex, call[1])
              resumed == [Validating EXCEPT !.states = o.states, !.cur = o.cur,
                                            !.call = o.call]
          IN  IF Ended(o.call) THEN CommitValidating(ValidatorAfterCall(resumed))
              ELSE CommitValidating(resumed)
     ELSE CommitValidating(ValidatorAfterCall(Validating))
  /\ UNCHANGED <<rows, passes, faults>>
  /\ ValidatingFrame

\* startValidation: the update of is_wrong answers; the counters, then the
\* 8 s delay
ValidatorUpdate ==
  \E updateError \in BOOLEAN :
    /\ validator.pc = "update"
    /\ Fault("database", updateError)
    /\ LET id == validator.questions[validator.i + 1]
           isWrong == validator.validation.isWrong
           counted ==
             [Validating EXCEPT
                !.validator.questionsMarkedWrong = IF isWrong THEN @ + 1 ELSE @,
                !.validator.questionsMarkedCorrect = IF isWrong THEN @ ELSE @ + 1]
           marked == IF updateError THEN Validating ELSE counted
       IN  /\ rows' = IF updateError THEN rows
                      ELSE [rows EXCEPT ![id].is_wrong = isWrong]
           /\ CommitValidating(
                [marked EXCEPT
                   !.progress.questionsMarkedWrong = marked.validator.questionsMarkedWrong,
                   !.progress.questionsMarkedCorrect = marked.validator.questionsMarkedCorrect,
                   !.validator.pc = "delay"])
    /\ UNCHANGED passes
    /\ ValidatingFrame

\* startValidation: the delay after an iteration is over (8 s, 5 s after the
\* catch block); the next iteration
ValidatorDelay ==
  /\ validator.pc \in {"delay", "failed"}
  /\ IF validator.alone
     THEN CommitValidating([Validating EXCEPT !.validator.pc = "free",
                                              !.progress.isValidating = FALSE])
     ELSE CommitValidating(ValidatorItem([Validating EXCEPT !.validator.i = @ + 1]))
  /\ UNCHANGED <<rows, passes, faults>>
  /\ ValidatingFrame

NextValidate ==
  \/ ValidateConfigure
  \/ ValidateStored
  \/ ValidatorRespond
  \/ ValidatorResume
  \/ ValidatorUpdate
  \/ ValidatorDelay

SpecValidate == InitValidator /\ [][NextValidate]_vars

\* ------------------------------------------------- the texts of the provider
\* One response of the provider, made of up to MaxPieces pieces a provider
\* writes around and inside its JSON, handed to parseJsonRobust for an array
\* or an object, or to sanitizeJsonString up to MaxSanitize times in a row.
Pieces ==
  { Json \o <<"LF">>,
    Fence,
    <<"[", "1", "]">>,
    <<"[", "1", ",", " ", "]">>,
    <<" ", "x", "]">>,
    <<"{", DoubleQuote, "a", DoubleQuote, ":", DoubleQuote, Backslash, Backslash,
      "a", DoubleQuote, "}">>,
    <<Backslash, "u", "0">> }

RECURSIVE Joined(_)
\* the pieces one after the other
Joined(pieces) == IF pieces = <<>> THEN <<>> ELSE Head(pieces) \o Joined(Tail(pieces))

Responses ==
  { Joined(pieces) : pieces \in UNION { [1..n -> Pieces] : n \in 0..MaxPieces } }

\* const response = await callGeminiAPI(prompt, ...)
ReceiveResponse ==
  \E text \in Responses :
    /\ parsed.pc = "idle"
    /\ geminiResponse' = text
    /\ cleaned' = text
    /\ parsed' = [parsed EXCEPT !.pc = "received"]
    /\ UNCHANGED <<poolVars, harnessVars, clientVars, passVars, questionType,
                   generationMode, validatorVars, planVars, solutionVars, sanitized>>

\* cleaned = sanitizeJsonString(cleaned)
Sanitize ==
  /\ parsed.pc = "received"
  /\ sanitized < MaxSanitize
  /\ cleaned' = SanitizeJsonString(cleaned)
  /\ sanitized' = sanitized + 1
  /\ UNCHANGED <<poolVars, harnessVars, clientVars, passVars, questionType,
                 generationMode, validatorVars, planVars, solutionVars, geminiResponse, parsed>>

\* parseJsonRobust(response, expectedType), to its return or its throw
Parse ==
  \E expectedType \in {"array", "object"} :
    /\ parsed.pc = "received"
    /\ sanitized = 0
    /\ \E result \in {ParseJsonRobust(geminiResponse, expectedType)} :
         parsed' = [pc |-> IF result.threw THEN "threw" ELSE "returned",
                    expectedType |-> expectedType, value |-> result.value,
                    message |-> result.message, errors |-> result.errors]
    /\ UNCHANGED <<poolVars, harnessVars, clientVars, passVars, questionType,
                   generationMode, validatorVars, planVars, solutionVars, geminiResponse, cleaned,
                   sanitized>>

NextText == ReceiveResponse \/ Sanitize \/ Parse

SpecText == Init /\ [][NextText]_vars

\* ------------------------------------------------- claims on the key pool
SomeActive(states) == \E i \in DOMAIN states : states[i].isActive

Occurrences(seq, x) == Cardinality({ j \in DOMAIN seq : seq[j] = x })

\* C7: for a non-empty pool getNextGeminiKey never fails; when every
\* credential is deactivated the call resets them all (active, errorCount
\* 0, usage counters untouched apart from the selection itself) and returns
\* an active credential; the reset happens only when every credential is
\* deactivated; the call fails only on an empty pool.
C7_SelectionNeverFails ==
  [][ lastOp'.op = "getNextGeminiKey" =>
        /\ lastOp'.threw <=> PoolSize = 0
        /\ PoolSize > 0 =>
             LET index == lastOp'.index IN
             /\ index \in 0..(PoolSize - 1)
             /\ Len(API_KEY_STATES') = PoolSize
             /\ lastOp'.reset <=> AllInactive(API_KEY_STATES)
             /\ \A k \in 1..PoolSize :
                  /\ API_KEY_STATES'[k].usageCount =
                       API_KEY_STATES[k].usageCount + (IF k = index + 1 THEN 1 ELSE 0)
                  /\ IF AllInactive(API_KEY_STATES)
                     THEN /\ API_KEY_STATES'[k].isActive
                          /\ API_KEY_STATES'[k].errorCount = 0
                     ELSE /\ API_KEY_STATES'[k].isActive = API_KEY_STATES[k].isActive
                          /\ API_KEY_STATES'[k].errorCount = API_KEY_STATES[k].errorCount
             /\ API_KEY_STATES'[index + 1].isActive
    ]_vars

\* C7 witness: three credentials, each used and failed three times, have
\* just been reset by the selection that followed.
C7_Witness ==
  /\ PoolSize = 3
  /\ lastOp.op = "getNextGeminiKey" /\ lastOp.reset
  /\ \A k \in 1..3 : API_KEY_STATES[k].usageCount >= 3
                     /\ API_KEY_STATES[k].isActive
                     /\ API_KEY_STATES[k].errorCount = 0

\* C8: markKeyError adds one to errorCount and stores the message,
\* markKeySuccess zeroes errorCount and clears lastError; a credential goes
\* from active to deactivated exactly in the markKeyError step that brings
\* its errorCount to 3, so "fail, fail, success, fail, fail" leaves it active.
C8_DeactivatedAtThreeFailures ==
  [][ /\ (lastOp'.op = "markKeyError" /\ lastOp'.index < PoolSize) =>
           LET k == lastOp'.index + 1 IN
           /\ API_KEY_STATES'[k].errorCount = API_KEY_STATES[k].errorCount + 1
           /\ API_KEY_STATES'[k].lastError = lastOp'.message
           /\ API_KEY_STATES'[k].isActive =
                (API_KEY_STATES[k].isActive /\ API_KEY_STATES'[k].errorCount < 3)
      /\ (lastOp'.op = "markKeySuccess" /\ lastOp'.index < PoolSize) =>
           LET k == lastOp'.index + 1 IN
           /\ API_KEY_STATES'[k].errorCount = 0
           /\ API_KEY_STATES'[k].lastError = NULL
           /\ API_KEY_STATES'[k].isActive = API_KEY_STATES[k].isActive
      /\ lastOp'.op # "setGeminiApiKeys" =>
           \A k \in 1..PoolSize :
             (API_KEY_STATES[k].isActive /\ ~API_KEY_STATES'[k].isActive) =>
               /\ lastOp'.op = "markKeyError" /\ lastOp'.index = k - 1
               /\ API_KEY_STATES[k].errorCount = 2
               /\ API_KEY_STATES'[k].errorCount = 3
      /\ exampleRun' = Len(ExampleHealth) => API_KEY_STATES'[1].isActive
    ]_vars

\* C8 witness: the first credential has gone through fail, fail, success,
\* fail, fail and is active with two failures counted.
C8_Witness ==
  /\ exampleRun = Len(ExampleHealth)
  /\ API_KEY_STATES[1].isActive
  /\ API_KEY_STATES[1].errorCount = 2
  /\ API_KEY_STATES[1].usageCount = 5

\* C9: as long as no credential has failed since setGeminiApiKeys, the j-th
\* selection returns credential ((j - 1) mod n) + 1, so k*n selections return
\* each of the n credentials exactly k times.
C9_RoundRobin ==
  neverFailed =>
    /\ \A j \in 1..Len(selections) : selections[j] = (j - 1) % PoolSize
    /\ (PoolSize > 0 /\ Len(selections) % PoolSize = 0) =>
         \A i \in 0..(PoolSize - 1) :
           /\ Occurrences(selections, i) = Len(selections) \div PoolSize
           /\ API_KEY_STATES[i + 1].usageCount = Len(selections) \div PoolSize

\* C9 witness: three credentials, six selections: 1,2,3,1,2,3.
C9_Witness ==
  /\ PoolSize = 3 /\ neverFailed
  /\ selections = <<0, 1, 2, 0, 1, 2>>

\* C10 as stated: after any pool operation has returned, some credential of
\* a configured pool is active.
C10_AlwaysSomeActive ==
  (PoolSize > 0 /\ lastOp.op \in {"getNextGeminiKey", "markKeyError", "markKeySuccess"})
    => SomeActive(API_KEY_STATES)

\* C10 amended: some credential is active whenever getNextGeminiKey or a
\* successful setGeminiApiKeys has just returned; the pool is without an
\* active credential only after a markKeyError that deactivated the last
\* one, until the next getNextGeminiKey.
C10_SomeActiveAfterSelection ==
  /\ (lastOp.op = "getNextGeminiKey" /\ ~lastOp.threw) => SomeActive(API_KEY_STATES)
  /\ (lastOp.op = "setGeminiApiKeys" /\ ~lastOp.threw) => SomeActive(API_KEY_STATES)
  /\ (PoolSize > 0 /\ AllInactive(API_KEY_STATES)) =>
       /\ pending = -1
       /\ lastOp.op = "markKeyError" \/ (lastOp.op = "setGeminiApiKeys" /\ lastOp.threw)

\* C10 witness: the only credential was deactivated and the selection that
\* followed has reactivated it.
C10_Witness ==
  /\ PoolSize = 1
  /\ lastOp.op = "getNextGeminiKey" /\ lastOp.reset
  /\ API_KEY_STATES[1].isActive

\* the number of steps from the cursor to index i, going round the pool
StepsFromCursor(i) == (i - currentKeyIndex + PoolSize) % PoolSize

\* C32: on a pool with an active credential getNextGeminiKey returns the
\* first active credential at or cyclically after the cursor, never a
\* deactivated one; it adds exactly 1 to the usageCount of that credential
\* and leaves the usageCount of every other one; it sets the cursor to
\* (returned index + 1) mod poolSize; the cursor of a non-empty pool is
\* always within 0..poolSize-1.
C32_FirstActiveFromCursor ==
  [][ /\ PoolSize > 0 => currentKeyIndex \in 0..(PoolSize - 1)
      /\ Len(API_KEY_STATES') > 0 => currentKeyIndex' \in 0..(Len(API_KEY_STATES') - 1)
      /\ (lastOp'.op = "getNextGeminiKey" /\ PoolSize > 0 /\ SomeActive(API_KEY_STATES)) =>
           LET index == lastOp'.index IN
           /\ ~lastOp'.threw
           /\ index \in 0..(PoolSize - 1)
           /\ API_KEY_STATES[index + 1].isActive
           /\ \A i \in 0..(PoolSize - 1) :
                API_KEY_STATES[i + 1].isActive => StepsFromCursor(index) <= StepsFromCursor(i)
           /\ Len(API_KEY_STATES') = PoolSize
           /\ \A i \in 0..(PoolSize - 1) :
                API_KEY_STATES'[i + 1].usageCount =
                  API_KEY_STATES[i + 1].usageCount + (IF i = index THEN 1 ELSE 0)
           /\ currentKeyIndex' = (index + 1) % PoolSize
    ]_vars

\* C32 witness: of two credentials the second has been used and has failed
\* three times; the two selections that followed returned the first, the
\* later one with the cursor on the deactivated second.
C32_Witness ==
  /\ PoolSize = 2
  /\ lastOp.op = "getNextGeminiKey" /\ ~lastOp.reset /\ lastOp.index = 0
  /\ ~API_KEY_STATES[2].isActive /\ API_KEY_STATES[2].usageCount = 3
  /\ API_KEY_STATES[1].usageCount = 5
  /\ currentKeyIndex = 1

\* C40: a setGeminiApiKeys call that throws leaves the pool configured
\* before it as it was: as many credentials, each with its key, usageCount,
\* errorCount, lastError and isActive, and the cursor.
C40_RejectedConfigurationKeepsPool ==
  [][ (lastOp'.op = "setGeminiApiKeys" /\ lastOp'.threw) =>
        /\ Len(API_KEY_STATES') = PoolSize
        /\ \A k \in 1..PoolSize :
             /\ API_KEY_STATES'[k].key = API_KEY_STATES[k].key
             /\ API_KEY_STATES'[k].usageCount = API_KEY_STATES[k].usageCount
             /\ API_KEY_STATES'[k].errorCount = API_KEY_STATES[k].errorCount
             /\ API_KEY_STATES'[k].lastError = API_KEY_STATES[k].lastError
             /\ API_KEY_STATES'[k].isActive = API_KEY_STATES[k].isActive
        /\ currentKeyIndex' = currentKeyIndex
    ]_vars

\* C40 witness: a list of blank entries has been rejected on a pool of two
\* credentials whose first has been used and has failed once.
C40_Witness ==
  /\ lastOp.op = "setGeminiApiKeys" /\ lastOp.threw
  /\ PoolSize = 2
  /\ API_KEY_STATES[1].usageCount = 1 /\ API_KEY_STATES[1].errorCount = 1
  /\ API_KEY_STATES[1].lastError = FetchError
  /\ currentKeyIndex = 1

\* ------------------------------------------- claims on the completion client
\* C1 as stated: a call that has met a content-safety block has ended, with
\* the content-blocked error: it selects no further credential and issues no
\* further request.
C1_BlockFailsImmediately ==
  \A t \in TaskIds :
    call[t].blocked => (call[t].pc = "threw" /\ call[t].result = ContentBlockedError)

\* C34: whatever setGeminiApiKeys calls and callGeminiAPI calls, one after
\* the other, have been made, a credential is deactivated exactly when its
\* errorCount is 3 or more: an active credential has an errorCount of 0, 1
\* or 2.
C34_DeactivatedIffThreeErrors ==
  \A k \in DOMAIN API_KEY_STATES :
    /\ ~API_KEY_STATES[k].isActive <=> API_KEY_STATES[k].errorCount >= ErrorThreshold
    /\ API_KEY_STATES[k].isActive => API_KEY_STATES[k].errorCount \in 0..(ErrorThreshold - 1)

\* C34 witness: a call has left the first credential deactivated after its
\* third failure and the second one active with two failures.
C34_Witness ==
  /\ PoolSize = 2
  /\ ~API_KEY_STATES[1].isActive /\ API_KEY_STATES[1].errorCount = 3
  /\ API_KEY_STATES[2].isActive /\ API_KEY_STATES[2].errorCount = 2
  /\ call[ClientTask].attemptCount = 5

\* The failures of an attempt that callGeminiAPI retries: every failure but
\* the content-safety block
RetryableFailures == { resp \in FailureResponses : resp.kind # "blocked" }

\* This step is the call's handling of resp, the answer to its request
AttemptFailsWith(resp) ==
  /\ call[ClientTask].pc = "fetch"
  /\ LET o == CallHandle(API_KEY_STATES, currentKeyIndex, call[ClientTask], resp)
     IN  /\ API_KEY_STATES' = o.states
         /\ currentKeyIndex' = o.cur
         /\ call'[ClientTask] = o.call

\* a 400 whose message names the key as not valid
InvalidCredential(resp) ==
  resp.kind = "http" /\ resp.status = 400 /\ resp.message = KeyNotValid

\* the message the failure is recorded with
MessageOf(resp) ==
  CASE resp.kind = "http" -> resp.message
    [] resp.kind = "exception" -> FetchError
    [] resp.kind = "empty" -> InvalidStructureError
    [] resp.kind = "notext" -> NoTextError

\* In this step one failure, with the message of resp, is recorded against
\* the credential of the attempt and against no other; a credential is
\* selected in the step only if the call goes on to its next request, and
\* the selection resets the pool only if the failure left no credential
\* active.
RecordsOneFailure(resp) ==
  LET used == call[ClientTask].keyIndex + 1
      selected == call'[ClientTask].pc = "fetch"
      counted(k) == API_KEY_STATES[k].errorCount + (IF k = used THEN 1 ELSE 0)
      deactivated(k) == ~API_KEY_STATES[k].isActive \/ counted(k) >= 3
      reset == selected /\ \A k \in 1..PoolSize : deactivated(k)
  IN  /\ Len(API_KEY_STATES') = PoolSize
      /\ \A k \in 1..PoolSize :
           /\ API_KEY_STATES'[k].errorCount = (IF reset THEN 0 ELSE counted(k))
           /\ API_KEY_STATES'[k].isActive = (reset \/ ~deactivated(k))
           /\ API_KEY_STATES'[k].lastError =
                (IF k = used THEN MessageOf(resp) ELSE API_KEY_STATES[k].lastError)
           /\ API_KEY_STATES'[k].usageCount =
                API_KEY_STATES[k].usageCount
                  + (IF selected /\ k = call'[ClientTask].keyIndex + 1 THEN 1 ELSE 0)

\* the call is at its next request, with one more attempt counted
NextRequest ==
  /\ call'[ClientTask].pc = "fetch"
  /\ call'[ClientTask].attemptCount = call[ClientTask].attemptCount + 1

\* the call has thrown the error that follows its loop
Exhausted ==
  /\ call'[ClientTask].pc = "threw"
  /\ call'[ClientTask].result = ExhaustedError
  /\ call'[ClientTask].attemptCount = call[ClientTask].attemptCount

AttemptsLeft == call[ClientTask].attemptCount < call[ClientTask].maxTotalRetries

CallsInFlight == { t \in TaskIds : InFlight(call[t]) }

\* C2 as stated: at every moment at most one callGeminiAPI invocation is in
\* flight, also after the 60 s timeout of an attempt has fired and after
\* stopGeneration followed by a new startGeneration.
C2_AtMostOneCallInFlight == Cardinality(CallsInFlight) <= 1

\* The statements generateQuestionsForTopic was handed as its
\* duplicate-avoidance context
ContextStatements(tk) ==
  (Range(tk.existingQuestionsContext) \cup Range(tk.recentQuestions)) \ {0}

\* The statements generateQuestionsForTopic puts in the prompt it sends
PromptStatements(tk) ==
  (Range(SliceLast(tk.existingQuestionsContext, ContextChars))
     \cup Range(SliceLast(tk.recentQuestions, RecentWindow))) \ {0}

\* C3 as stated: the generation attempt for topic A that follows the
\* acceptance of item X for topic A is handed X's statement in its
\* duplicate-avoidance context.
C3_NextAttemptCarriesAccepted ==
  \A t \in TaskIds :
    (task[t].pc # "free" /\ task[t].owed # -1) =>
      task[t].owed \in ContextStatements(task[t])

\* C4 as stated: the context sent with a generation attempt for topic A
\* contains every item its pass has accepted for topic A so far and every
\* item that existed when the pass loaded the topic.
C4_ContextHoldsAllAccepted ==
  \A t \in TaskIds :
    (task[t].pc # "free" /\ task[t].owner # 0) =>
      LET rec == run[task[t].owner]
      IN  (Range(RecentQuestions(rec))
             \cup Range(Statements(rec.allExistingQuestions.items)))
            \subseteq PromptStatements(task[t])

\* The step starts the first attempt of an item of pass r
ItemStarted(r) ==
  /\ run'[r].pc = "race" /\ run'[r].attempts = 1
  /\ ~(run[r].pc = "race" /\ run[r].attempts = 1)

\* C5 as stated: a pass on which stopGeneration has been invoked starts no
\* further item (so inserts no row beyond the item in progress), and the rows
\* persisted stay as they are.
C5_StopHaltsAtNextItem ==
  [][ /\ \A r \in RunIds : run[r].stopped => ~ItemStarted(r)
      /\ Len(rows') >= Len(rows) /\ SubSeq(rows', 1, Len(rows)) = rows
    ]_vars

\* C6 as stated: while the pause flag is set no pass starts an item.
C6_PauseBlocksNextItem ==
  [][ \A r \in RunIds : ItemStarted(r) => ~progress.isPaused ]_vars


\* C11: one call of callGeminiAPI makes at most 3 x poolSize attempts, each of
\* them issuing at most one request, the pool size being the one the call met
\* at its start; a call that fails for want of attempts has made exactly
\* 3 x poolSize of them and names that count in its error.
C11_AttemptsWithinBudget ==
  \A t \in TaskIds :
    LET c == call[t]
    IN  /\ c.attemptCount <= c.maxTotalRetries
        /\ InFlight(c) => c.maxTotalRetries = 3 * Len(API_KEY_STATES)
        /\ c.pc = "threw" /\ c.result = ExhaustedError
             => /\ c.attemptCount = c.maxTotalRetries
                /\ c.named = c.attemptCount
        /\ c.named # -1 => c.pc = "threw" /\ c.result = ExhaustedError

C11_Witness ==
  /\ Len(API_KEY_STATES) = 2
  /\ call[ClientTask].pc = "threw"
  /\ call[ClientTask].result = ExhaustedError
  /\ call[ClientTask].attemptCount = 6
  /\ call[ClientTask].named = 6
  /\ TotalUsage(API_KEY_STATES) = 6


\* C12: the step in which a call of callGeminiAPI receives a response with
\* text ends the call with that text: the credential of that attempt gets
\* errorCount 0 and lastError null, nothing else in the pool changes, no
\* credential is selected (cursor, usage counts and attempt count stay) and the
\* call issues no further request.
C12_SuccessEndsCall ==
  [][\A t \in TaskIds :
       (call[t].pc = "fetch" /\ call'[t].result = "text") =>
         LET k == call[t].keyIndex + 1
         IN  /\ call'[t].pc = "returned"
             /\ call'[t].attemptCount = call[t].attemptCount
             /\ call'[t].keyIndex = call[t].keyIndex
             /\ currentKeyIndex' = currentKeyIndex
             /\ Len(API_KEY_STATES') = Len(API_KEY_STATES)
             /\ API_KEY_STATES'[k].errorCount = 0
             /\ API_KEY_STATES'[k].lastError = NULL
             /\ API_KEY_STATES'[k].usageCount = API_KEY_STATES[k].usageCount
             /\ API_KEY_STATES'[k].key = API_KEY_STATES[k].key
             /\ \A i \in 1..Len(API_KEY_STATES) :
                  i # k => API_KEY_STATES'[i] = API_KEY_STATES[i]]_vars

\* a call that returned its text on a later attempt: the credential that
\* served it is clean, the other still carries the failure of the first
C12_Witness ==
  LET c == call[ClientTask]
  IN  /\ c.pc = "returned"
      /\ c.result = "text"
      /\ c.attemptCount = 2
      /\ Len(API_KEY_STATES) = 2
      /\ API_KEY_STATES[c.keyIndex + 1].errorCount = 0
      /\ API_KEY_STATES[c.keyIndex + 1].lastError = NULL
      /\ \E i \in 1..2 : API_KEY_STATES[i].errorCount > 0
      /\ TotalUsage(API_KEY_STATES) = 2


\* A call of callGeminiAPI that failed on its configuration: it threw without
\* having made an attempt (blank prompt, or no credential in the pool)
ConfigurationFailure(c) == c.pc = "threw" /\ c.attemptCount = 0

\* C13: a call of callGeminiAPI that fails on its configuration leaves the
\* pool and the cursor as they were, and generateQuestionsForTopic, having
\* received that failure, does not go on to another attempt: it ends.
C13_ConfigurationFailureSurfaces ==
  [][\A t \in TaskIds :
       /\ (call'[t] # call[t] /\ ConfigurationFailure(call'[t]))
            => UNCHANGED <<API_KEY_STATES, currentKeyIndex>>
       /\ (task[t].pc = "call" /\ ConfigurationFailure(call[t]) /\ task'[t] # task[t])
            => task'[t].pc = "free"]_vars


\* Not blank: some character of the entry is not a space
NonBlank(s) == \E j \in 1..Len(s) : s[j] # " "

\* t is s without its leading and trailing spaces
IsTrimOf(t, s) ==
  /\ t # <<>> /\ t[1] # " " /\ t[Len(t)] # " "
  /\ \E a \in 0..Len(s) :
       /\ a + Len(t) <= Len(s)
       /\ SubSeq(s, a + 1, a + Len(t)) = t
       /\ \A j \in 1..Len(s) : (j <= a \/ j > a + Len(t)) => s[j] = " "

\* C14: setGeminiApiKeys(keys) throws, and leaves pool and cursor alone,
\* exactly when no entry of keys is non-blank; otherwise the pool becomes the
\* trimmed non-blank entries in their input order, each with usageCount 0,
\* errorCount 0, lastError null and isActive true, and the cursor becomes 0,
\* whatever the pool and the cursor were.
C14_ConfigurationReplacesPool ==
  [][lastOp'.op = "setGeminiApiKeys" =>
       LET keys == lastOp'.keys
           kept == { i \in 1..Len(keys) : NonBlank(keys[i]) }
           Rank(i) == Cardinality({ n \in kept : n <= i })
       IN  /\ lastOp'.threw <=> kept = {}
           /\ lastOp'.threw => UNCHANGED <<API_KEY_STATES, currentKeyIndex>>
           /\ ~lastOp'.threw =>
                /\ currentKeyIndex' = 0
                /\ Len(API_KEY_STATES') = Cardinality(kept)
                /\ \A i \in kept :
                     LET entry == API_KEY_STATES'[Rank(i)]
                     IN  /\ IsTrimOf(entry.key, keys[i])
                         /\ entry.usageCount = 0
                         /\ entry.errorCount = 0
                         /\ entry.lastError = NULL
                         /\ entry.isActive]_vars

\* a pool whose second credential had been handed out and not yet reported
\* on is replaced by the two keys of a list with a blank entry between them
C14_Witness ==
  /\ lastOp.op = "setGeminiApiKeys" /\ ~lastOp.threw
  /\ lastOp.keys = << <<"b", " ">>, <<" ">>, <<" ", "a", " ">> >>
  /\ pending = 1
  /\ currentKeyIndex = 0
  /\ Len(API_KEY_STATES) = 2
  /\ API_KEY_STATES[1].key = <<"b">> /\ API_KEY_STATES[2].key = <<"a">>
  /\ \A i \in 1..2 : API_KEY_STATES[i].usageCount = 0


\* An attempt of pass r starts in this step
AttemptStarted(r) ==
  /\ run'[r].pc = "race"
  /\ \/ run[r].pc # "race"
     \/ run'[r].task # run[r].task
     \/ run'[r].attempts # run[r].attempts

SameItem(r) ==
  /\ Running(run[r]) /\ Running(run'[r])
  /\ run[r].pc \notin {"count", "load", "topicwait"}
  /\ run'[r].topicIndex = run[r].topicIndex
  /\ run'[r].questionIndex = run[r].questionIndex

\* C15: in every state a pass has made at most 3 attempts for its item, and
\* every attempt, however the one before it failed (generateQuestionsForTopic
\* threw, the 60 s timer won, the question failed validation or was
\* self-flagged), raises attempts by exactly one: attempts changes in no
\* other step on the same item, and the first attempt of an item is number 1.
C15_AtMostThreeAttempts ==
  /\ [](\A r \in RunIds : run[r].attempts <= 3)
  /\ [][\A r \in RunIds :
          /\ SameItem(r) /\ AttemptStarted(r) /\ run[r].pc # "paused"
               => run'[r].attempts = run[r].attempts + 1
          /\ SameItem(r) /\ ~AttemptStarted(r)
               => run'[r].attempts = run[r].attempts
          /\ AttemptStarted(r) /\ ~SameItem(r) => run'[r].attempts = 1
          /\ AttemptStarted(r) /\ run[r].pc = "paused" => run'[r].attempts = 1]_vars

\* the third attempt for an item is under way after a first that the timer
\* ended (its generateQuestionsForTopic still awaits its first response) and
\* a second that ended on the eighth failing response of its
\* generateQuestionsForTopic
C15_Witness ==
  \E r \in RunIds :
    /\ run[r].pc = "race" /\ run[r].attempts = 3
    /\ run[r].questionIndex = 0 /\ run[r].topicIndex = 0
    /\ issued = 0 /\ faults = 9
    /\ task[run[r].task].attempt = 1
    /\ \E t \in TaskIds :
         task[t].owner = 0 /\ task[t].pc = "call" /\ task[t].attempt = 1


\* The quota of the topic pass r is in
Quota(rec) == Topic(rec).questionsToGenerate

\* C16: a pass goes through its items one by one and through its topics one
\* by one, whatever happens to the attempts: from an item it moves only to the
\* next item of the topic or, after the last item, to the next topic, and it
\* ends only from the last item of the last topic (or from the analysis, when
\* no topic needs a question).
C16_ItemFailuresDoNotEscalate ==
  [][\A r \in RunIds :
       (Running(run[r]) /\ run[r].pc # "count") =>
         LET rec == run[r]
             lastItem == rec.questionIndex = Quota(rec) - 1
             lastTopic == rec.topicIndex = Len(rec.needs) - 1
         IN  IF ~Running(run'[r]) THEN lastItem /\ lastTopic
             ELSE /\ run'[r].needs = rec.needs
                  /\ \/ /\ run'[r].topicIndex = rec.topicIndex
                        /\ run'[r].questionIndex = rec.questionIndex
                     \/ /\ run'[r].topicIndex = rec.topicIndex
                        /\ run'[r].questionIndex = rec.questionIndex + 1
                        /\ rec.pc \notin {"load", "topicwait"}
                        /\ run'[r].pc = "topicwait" <=> lastItem
                     \/ /\ rec.pc = "topicwait"
                        /\ rec.questionIndex = Quota(rec)
                        /\ run'[r].topicIndex = rec.topicIndex + 1
                        /\ run'[r].topicIndex < Len(rec.needs)
                        /\ run'[r].questionIndex = 0
                        /\ run'[r].pc = "load"]_vars

\* the pass works on its second topic although no question text has been
\* produced: the only item of the first topic was given up after three
\* failed attempts
C16_Witness ==
  \E r \in RunIds :
    /\ run[r].pc = "race"
    /\ Len(run[r].needs) = 2 /\ run[r].topicIndex = 1
    /\ issued = 0 /\ rows = <<>> /\ faults >= 3
    /\ run[r].totalGenerated = 0


\* C17: no row of new_questions carries is_wrong = true, and a pass that has
\* met a self-flagged question has inserted nothing for it: it waits, and its
\* next step is the next attempt for the same item (the attempt spent) or,
\* after the third attempt, the next item.
C17_FlaggedNeverPersisted ==
  /\ [](\A i \in DOMAIN rows : ~rows[i].is_wrong)
  /\ [][\A r \in RunIds :
          /\ (run'[r].isWrong /\ ~run[r].isWrong)
               => rows' = rows /\ run'[r].pc = "wait"
                  /\ run'[r].totalGenerated = run[r].totalGenerated
          /\ (run[r].isWrong /\ run[r].pc = "wait" /\ run'[r] # run[r])
               => /\ rows' = rows
                  /\ IF run[r].attempts < 3
                     THEN /\ run'[r].pc = "race"
                          /\ run'[r].attempts = run[r].attempts + 1
                          /\ run'[r].questionIndex = run[r].questionIndex
                     ELSE ~SameItem(r)]_vars

\* the second attempt for the first item is under way, the first having
\* returned a self-flagged question of which the table shows nothing
C17_Witness ==
  \E r \in RunIds :
    /\ run[r].pc = "race" /\ run[r].attempts = 2 /\ run[r].isWrong
    /\ run[r].questionIndex = 0 /\ run[r].topicIndex = 0
    /\ faults = 1 /\ rows = <<>>


\* C18: for a selected type MCQ or MSQ a question with an options array of
\* any length but 4, or with none, is not inserted, and one that is complete
\* and unflagged and has 4 options is; every row of type MCQ or MSQ has 4
\* options, every row of type NAT or Subjective has options null, and every
\* row has a statement that is not blank.
C18_RowsAreWellFormed ==
  /\ [][call'[1].pc = "returned" =>
          LET received == call'[1].result.question
          IN  /\ (questionType \in {"MCQ", "MSQ"} /\ received.options # 4)
                   => rows' = rows
              /\ ( /\ questionType \in {"MCQ", "MSQ"} /\ received.options = 4
                   /\ received.question_statement > 0
                   /\ received.question_type \in QuestionTypes
                   /\ received.answer /\ ~received.is_wrong )
                   => Len(rows') = Len(rows) + 1]_vars
  /\ [](\A i \in DOMAIN rows :
          /\ rows[i].question_type \in {"MCQ", "MSQ"} => rows[i].options = 4
          /\ rows[i].question_type \in {"NAT", "Subjective"} => rows[i].options = -1
          /\ rows[i].question_statement > 0)

\* a question that came with four options has been inserted as a NAT row
\* without options
C18_Witness ==
  /\ questionType = "NAT" /\ call[1].pc = "returned"
  /\ call[1].result.question.options = 4
  /\ call[1].result.question.question_type = "MCQ"
  /\ Len(rows) = 1 /\ rows[1].question_type = "NAT" /\ rows[1].options = -1


\* The insert of pass r answers with an error in this step
InsertFails(r) ==
  /\ run[r].pc = "insert" /\ run'[r].pc # "insert" /\ rows' = rows

\* C19: the step in which an insert fails leaves the item: no further attempt
\* is made for it (the pass is at the next item, at the end of the topic or
\* at its own end), and the question is added neither to the counter nor to
\* the lists the prompts are built from.
C19_InsertErrorDropsItem ==
  [][\A r \in RunIds :
       InsertFails(r) =>
         /\ Running(run'[r]) =>
              /\ run'[r].topicIndex = run[r].topicIndex
              /\ run'[r].questionIndex = run[r].questionIndex + 1
              /\ run'[r].pc \in {"race", "paused", "topicwait"}
              /\ run'[r].pc = "race" => run'[r].attempts = 1
              /\ run'[r].totalGenerated = run[r].totalGenerated
              /\ run'[r].allGeneratedQuestions = run[r].allGeneratedQuestions
              /\ run'[r].allExistingQuestions = run[r].allExistingQuestions
              /\ run'[r].existingQuestionsContext = run[r].existingQuestionsContext
         /\ ~Running(run'[r]) =>
              /\ run[r].topicIndex = Len(run[r].needs) - 1
              /\ run[r].questionIndex = Quota(run[r]) - 1]_vars

\* the pass is at the first attempt for its second item with nothing counted
\* and nothing in the table, the one question text produced so far having
\* been lost to an insert error, the only failure so far
C19_Witness ==
  \E r \in RunIds :
    /\ run[r].pc = "race" /\ run[r].attempts = 1
    /\ run[r].topicIndex = 0 /\ run[r].questionIndex = 1
    /\ run[r].totalGenerated = 0 /\ run[r].allGeneratedQuestions = <<>>
    /\ issued = 1 /\ faults = 1 /\ rows = <<>>
    /\ \A t \in TaskIds : task[t].pc # "free" => t = run[r].task
    /\ task[run[r].task].recentQuestions = <<>>


\* The count query of pass r answers in this step
CountAnswers(r) ==
  /\ run[r].pc = "count"
  /\ run'[r].pc # "count" \/ run'[r].analyseIndex # run[r].analyseIndex

\* The rows of the selected type a topic has
ExistingRows(topic) ==
  { i \in DOMAIN rows :
      rows[i].topic_id = topic /\ rows[i].question_type = questionType }

\* C20: a topic enters the list of topics to generate for with
\* max(0, quota - existingCount) items, existingCount being what
\* getExistingQuestionsCount returns (the number of rows of the topic and the
\* selected type, 0 when the query fails), and only if that number is above
\* 0; no count is asked for a topic of quota 0, and a pass loads the context
\* of, and requests questions for, the topics of that list only.
C20_GeneratesTheRemainder ==
  /\ [](\A r \in RunIds :
          /\ run[r].pc = "count"
               => run[r].plan[run[r].analyseIndex + 1].questionsToGenerate > 0
          /\ \A n \in DOMAIN run[r].needs :
               /\ run[r].needs[n].questionsToGenerate > 0
               /\ \E p \in DOMAIN run[r].plan :
                    /\ run[r].plan[p].id = run[r].needs[n].id
                    /\ run[r].plan[p].questionsToGenerate
                         >= run[r].needs[n].questionsToGenerate
          /\ run[r].pc \notin {"free", "count"} => run[r].topicIndex < Len(run[r].needs)
          /\ \A t \in TaskIds :
               (task[t].pc # "free" /\ task[t].owner = r)
                 => task[t].topic = Topic(run[r]).id)
  /\ [][\A r \in RunIds :
          CountAnswers(r) =>
            LET entry == run[r].plan[run[r].analyseIndex + 1]
                quota == entry.questionsToGenerate
                existingCount == IF faults' = faults
                                 THEN Cardinality(ExistingRows(entry.id)) ELSE 0
                remaining == IF quota > existingCount THEN quota - existingCount ELSE 0
                expected == IF remaining > 0
                            THEN Append(run[r].needs, PlanEntry(entry.id, remaining))
                            ELSE run[r].needs
            IN  IF Running(run'[r]) THEN run'[r].needs = expected
                ELSE expected = <<>>]_vars

\* a pass over a topic of quota 0, a topic B in need of one question and a
\* topic A that has its one question already generates for B alone
C20_Witness ==
  \E r \in RunIds :
    /\ Len(run[r].plan) = 3 /\ run[r].analyseIndex = 3
    /\ run[r].needs = <<PlanEntry("B", 1)>>
    /\ run[r].pc = "race"
    /\ Cardinality(ExistingRows("A")) = 1 /\ ExistingRows("B") = {}
    /\ faults = 0

\* The questions pass r has pushed to allGeneratedQuestions for a topic
GeneratedFor(rec, topic) ==
  Cardinality({ i \in DOMAIN rec.allGeneratedQuestions :
                  rec.allGeneratedQuestions[i].topic_id = topic })

\* In this step pass r has a row inserted
Inserts(r) == run[r].pc = "insert" /\ run'[r] # run[r] /\ rows' # rows

\* C35: a generateNewQuestions pass has a row inserted at most once for an
\* item (only while validQuestionGenerated is unset, and the insert sets it
\* for as long as the pass stays at the item);
\* totalGenerated is 0 when the pass starts, grows by exactly 1 with each of
\* its successful inserts and with nothing else, so it is the number of rows
\* the pass has inserted; these rows are the questions it has pushed to
\* allGeneratedQuestions, and for no topic are they more than the topic's
\* remainingToGenerate, nor more than the items of the topic begun so far.
C35_InsertAccounting ==
  [][ /\ rows' # rows =>
           /\ Len(rows') = Len(rows) + 1
           /\ SubSeq(rows', 1, Len(rows)) = rows
           /\ \E r \in RunIds : Inserts(r)
      /\ \A r \in RunIds :
           /\ Inserts(r) =>
                /\ ~run[r].validQuestionGenerated
                /\ rows'[Len(rows')].topic_id = Topic(run[r]).id
                /\ Running(run'[r]) =>
                     /\ \/ run'[r].validQuestionGenerated
                        \/ <<run'[r].topicIndex, run'[r].questionIndex>>
                             # <<run[r].topicIndex, run[r].questionIndex>>
                     /\ run'[r].totalGenerated = run[r].totalGenerated + 1
                     /\ Len(run'[r].allGeneratedQuestions) =
                          Len(run[r].allGeneratedQuestions) + 1
                     /\ LET pushed == run'[r].allGeneratedQuestions[run'[r].totalGenerated]
                        IN  /\ pushed.topic_id = rows'[Len(rows')].topic_id
                            /\ pushed.question_statement =
                                 rows'[Len(rows')].question_statement
           /\ (~Inserts(r) /\ Running(run[r]) /\ Running(run'[r])) =>
                /\ run'[r].totalGenerated = run[r].totalGenerated
                /\ run'[r].allGeneratedQuestions = run[r].allGeneratedQuestions
           /\ (~Running(run[r]) /\ Running(run'[r])) => run'[r].totalGenerated = 0
           /\ Running(run[r]) =>
                /\ run[r].totalGenerated = Len(run[r].allGeneratedQuestions)
                /\ \A n \in DOMAIN run[r].needs :
                     /\ GeneratedFor(run[r], run[r].needs[n].id)
                          <= run[r].needs[n].questionsToGenerate
                     /\ n - 1 > run[r].topicIndex =>
                          GeneratedFor(run[r], run[r].needs[n].id) = 0
                     /\ (n - 1 = run[r].topicIndex /\ run[r].pc \notin {"count", "load"}) =>
                          GeneratedFor(run[r], run[r].needs[n].id)
                            <= run[r].questionIndex
                                 + (IF run[r].validQuestionGenerated THEN 1 ELSE 0)
    ]_vars

\* C35 witness: a pass has had its third row inserted, for its third item,
\* at the second attempt for that item.
C35_Witness ==
  \E r \in RunIds :
    /\ run[r].pc = "wait" /\ run[r].validQuestionGenerated
    /\ run[r].questionIndex = 2 /\ run[r].attempts = 2
    /\ run[r].totalGenerated = 3
    /\ Len(rows) = 3

\* A pass is under way; it awaits an answer of the database; it awaits
\* Promise.race
PassRunning == \E r \in RunIds : Running(run[r])
StoreAwaited == \E r \in RunIds : run[r].pc \in {"count", "load", "insert"}
RaceAwaited == \E r \in RunIds : run[r].pc = "race"

RECURSIVE PositiveWeightage(_)
\* The sum of the weightages above 0 of a list of topics
PositiveWeightage(list) ==
  IF list = <<>> THEN 0
  ELSE (IF Head(list).weightage > 0 THEN Head(list).weightage ELSE 0)
       + PositiveWeightage(Tail(list))

\* The topics of the list without weightage
ZeroWeightageCount(list) ==
  Cardinality({ i \in DOMAIN list : list[i].weightage = 0 })

Abs(n) == IF n < 0 THEN -n ELSE n

\* The integer nearest to numerator / denominator, a half going up
Nearest(numerator, denominator) ==
  CHOOSE k \in -(Abs(numerator) + 1)..(Abs(numerator) + 1) :
    /\ 2 * denominator * k - denominator <= 2 * numerator
    /\ 2 * numerator < 2 * denominator * k + denominator

Quotas == [i \in DOMAIN calculationResult.topics |->
             calculationResult.topics[i].questionsToGenerate]

RECURSIVE SumOf(_)
SumOf(numbers) == IF numbers = <<>> THEN 0 ELSE Head(numbers) + SumOf(Tail(numbers))

WeightagesOf(list) == [i \in DOMAIN list |-> list[i].weightage]

\* C21: the quotas rendered are those of calculateTopicQuestions for the
\* topics and the total of the state, in the order of the topics; a topic
\* with weightage above 0 has the quota max(1, round(weightage / totalWeight
\* x T)), totalWeight being the sum of the weightages above 0; the
\* weightages 0.5, 0.3, 0.2 with T = 30 give the quotas 15, 9, 6.
C21_WeightedQuota ==
  /\ DOMAIN calculationResult.topics = DOMAIN topics
  /\ \A i \in DOMAIN topics :
       /\ calculationResult.topics[i].id = topics[i].id
       /\ topics[i].weightage > 0
            => Quotas[i] = Max(1, Nearest(topics[i].weightage * totalQuestions,
                                          PositiveWeightage(topics)))
  /\ (WeightagesOf(topics) = <<50, 30, 20>> /\ totalQuestions = 30)
       => Quotas = <<15, 9, 6>>

\* the example of the specification
C21_Witness ==
  /\ WeightagesOf(topics) = <<50, 30, 20>>
  /\ totalQuestions = 30
  /\ Quotas = <<15, 9, 6>>

\* C22: a topic without weightage adds 0.02 to the total the weightages are
\* divided by: with z such topics the quota of a topic with weightage is
\* max(1, round(weightage / (sum of the weightages above 0 + 0.02 x z) x T)).
C22_ZeroWeightageCountsInTotal ==
  \A i \in DOMAIN topics :
    topics[i].weightage > 0
      => Quotas[i] = Max(1, Nearest(topics[i].weightage * totalQuestions,
                                    PositiveWeightage(topics)
                                      + NominalWeightage * ZeroWeightageCount(topics)))

AllWeighted(list) == \A i \in DOMAIN list : list[i].weightage > 0

\* C23 as stated: for topics that all have a weightage above 0 and T >= 1 the
\* quotas add up to T give or take the number of topics, each being at least 1.
C23_QuotaSum ==
  (AllWeighted(topics) /\ totalQuestions >= 1)
    => /\ Abs(SumOf(Quotas) - totalQuestions) <= Len(topics)
       /\ \A i \in DOMAIN topics : Quotas[i] >= 1

\* C23 amended: the same for at least one topic.
C23_QuotaSumOfSomeTopics ==
  (topics # <<>> /\ AllWeighted(topics) /\ totalQuestions >= 1)
    => /\ Abs(SumOf(Quotas) - totalQuestions) <= Len(topics)
       /\ \A i \in DOMAIN topics : Quotas[i] >= 1

\* topics whose quotas add up to more than T, one of them owing its question
\* to the minimum
C23_Witness ==
  /\ Len(topics) >= 2 /\ AllWeighted(topics)
  /\ totalQuestions = 1
  /\ SumOf(Quotas) = Len(topics)

PlaceIn(list, id) ==
  IF \E i \in DOMAIN list : list[i].id = id
  THEN CHOOSE i \in DOMAIN list : list[i].id = id
  ELSE 0

\* the topics kept are in the order of the list handed to the pass
InPlanOrder(rec) ==
  \A i, j \in DOMAIN rec.needs :
    i < j => /\ PlaceIn(rec.plan, rec.needs[i].id) > 0
             /\ PlaceIn(rec.plan, rec.needs[i].id) < PlaceIn(rec.plan, rec.needs[j].id)

\* the pass is in its topics loop
InTopics(rec) == Running(rec) /\ rec.pc # "count"

\* C25: a pass works on the topics it keeps in the order of the list it was
\* handed, one after the other, and on the items of a topic in sequence: the
\* first attempt for the next item is made only in a step that follows the
\* insert of the item (or makes it), its third failed attempt or its failed
\* insert; a row is inserted for the topic the pass is in, when no
\* generateQuestionsForTopic invocation for a later topic has been started,
\* and an invocation is started for the topic the pass is in.
C25_StrictOrder ==
  /\ [](\A r \in RunIds : InPlanOrder(run[r]))
  /\ [][\A r \in RunIds :
          LET rec == run[r]
              nxt == run'[r]
          IN  /\ (Running(rec) /\ Running(nxt)) => nxt.plan = rec.plan
              /\ (InTopics(rec) /\ Running(nxt))
                   => /\ nxt.needs = rec.needs
                      /\ \/ /\ nxt.topicIndex = rec.topicIndex
                            /\ nxt.questionIndex \in
                                 {rec.questionIndex, rec.questionIndex + 1}
                         \/ /\ nxt.topicIndex = rec.topicIndex + 1
                            /\ nxt.questionIndex = 0
                            /\ rec.questionIndex = Topic(rec).questionsToGenerate
                      /\ nxt.questionIndex = rec.questionIndex + 1
                           => \/ rec.validQuestionGenerated
                              \/ Len(rows') > Len(rows)
                              \/ rec.attempts = maxAttempts
                              \/ rec.pc = "insert"
              /\ (InTopics(rec) /\ rows' # rows)
                   => /\ rec.pc = "insert"
                      /\ rows' = Append(rows, QuestionToSave(Topic(rec).id, rec.question))
                      /\ \A t \in TaskIds :
                           task[t].pc # "free"
                             => PlaceIn(rec.needs, task[t].topic)
                                  \in 1..(rec.topicIndex + 1)
              /\ \A t \in TaskIds :
                   (task[t].pc = "free" /\ task'[t].pc # "free" /\ task'[t].owner = r)
                     => task'[t].topic = Topic(nxt).id]_vars

\* the pass has inserted the question of its first topic and awaits the
\* first question of its second
C25_Witness ==
  \E r \in RunIds :
    /\ Len(run[r].needs) = 2 /\ run[r].topicIndex = 1 /\ run[r].pc = "race"
    /\ Len(rows) = 1 /\ rows[1].topic_id = run[r].needs[1].id
    /\ task[run[r].task].topic = run[r].needs[2].id

\* ------------------------------------- claims on the solutions of the PYQs
\* C26: a step changes nothing in the questions_topic_wise table but the
\* answer and the solution of a row, whatever slot and part are selected.
C26_OnlyAnswerAndSolution ==
  [][/\ DOMAIN questions_topic_wise' = DOMAIN questions_topic_wise
     /\ \A n \in DOMAIN questions_topic_wise :
          LET old == questions_topic_wise[n]
              new == questions_topic_wise'[n]
          IN  /\ new.id = old.id
              /\ new.topic_id = old.topic_id
              /\ new.question_statement = old.question_statement
              /\ new.slot = old.slot
              /\ new.part = old.part]_vars

\* the pass is in its loop over the items
InItems == pyq.pc \in {"solve", "retry", "update", "delay", "paused"}

\* the rows the pass has completed
Completed ==
  { n \in DOMAIN questions_topic_wise :
      /\ questions_topic_wise[n].answer = NewSolution.answer
      /\ questions_topic_wise[n].solution = NewSolution.solution }

\* C27: in its loop generatePYQSolutions keeps its list of items and goes
\* from an item to the next one only; whatever fails (an update or
\* generateSolutionsForPYQs) it either stays with the item or requests the
\* solution of the next one, and it ends only from the last item, its toast
\* then giving the number of updates that succeeded, which is also the
\* count it shows all along.
C27_BatchSurvivesItemFailure ==
  /\ [](/\ InItems => /\ pyq.solutionsGenerated = Cardinality(Completed)
                      /\ pyq.i < Len(pyq.enrichedPYQs)
        /\ generatedCount.pyq = Cardinality(Completed)
        /\ completeToast # -1 => completeToast = Cardinality(Completed))
  /\ [][InItems =>
          /\ pyq'.pc # "free"
               => /\ pyq'.enrichedPYQs = pyq.enrichedPYQs
                  /\ pyq'.i \in {pyq.i, pyq.i + 1}
                  /\ pyq'.i = pyq.i + 1 => pyq'.pc = "solve" /\ pyq'.attempt = 1
                  /\ UNCHANGED completeToast
          /\ pyq'.pc = "free"
               => /\ pyq.i = Len(pyq.enrichedPYQs) - 1
                  /\ completeToast' = Cardinality(Completed)
          /\ (pyq.pc = "update" /\ UNCHANGED questions_topic_wise)
               => /\ pyq'.pc = "delay" /\ pyq'.i = pyq.i
                  /\ pyq'.solutionsGenerated = pyq.solutionsGenerated]_vars

\* the pass has ended with one solution written, that of the second of two
\* items, the first one having failed
C27_Witness ==
  /\ completeToast = 1
  /\ Len(questions_topic_wise) = 2
  /\ \A n \in {1, 2} : questions_topic_wise[n].topic_id \in CourseTopicIds
  /\ WithoutSolution(questions_topic_wise[1])
  /\ Completed = {2}

\* ------------------------------------------------ claims on parseJsonRobust
\* strategy k of the source, by its name
StrategyNumber(k, text, expectedType) ==
  CASE k = 1 -> Strategy1(text, expectedType)
    [] k = 2 -> Strategy2(text, expectedType)
    [] k = 3 -> Strategy3(text, expectedType)
    [] k = 4 -> Strategy4(text, expectedType)
    [] k = 5 -> Strategy5(text, expectedType)
    [] k = 6 -> Strategy6(text, expectedType)

\* C28: parseJsonRobust tries its six strategies in the order 1..6 and returns
\* the result of the first that succeeds: the strategies it has run and that
\* threw are 1..k in this order, each of them does throw on the response, the
\* call throws exactly when all six threw, and what it returns is what
\* strategy k+1, which does not throw, returns.
C28_FirstSuccessInOrder ==
  parsed.pc \in {"returned", "threw"} =>
    LET failed == Len(parsed.errors)
        tried(k) == StrategyNumber(k, geminiResponse, parsed.expectedType)
    IN  /\ failed <= StrategyCount
        /\ \A k \in 1..failed :
             /\ parsed.errors[k].strategy = k
             /\ tried(k).threw
             /\ parsed.errors[k].message = tried(k).message
        /\ (parsed.pc = "threw") <=> (failed = StrategyCount)
        /\ parsed.pc = "returned" =>
             /\ ~tried(failed + 1).threw
             /\ parsed.value = tried(failed + 1).value

\* the call returned what strategy 6 found after strategies 1 to 5 threw
C28_Witness ==
  /\ parsed.pc = "returned"
  /\ Len(parsed.errors) = 5
  /\ parsed.value = <<"[", "1", "]">>

\* C29: when all strategies throw, the error parseJsonRobust fails with
\* aggregates every strategy's failure reason, and holds nothing of the
\* response.
C29_ErrorAggregatesReasons ==
  parsed.pc = "threw" =>
    /\ \A k \in 1..StrategyCount :
         \E part \in DOMAIN parsed.message :
           parsed.message[part] = parsed.errors[k].message
    /\ \A part \in DOMAIN parsed.message : parsed.message[part] # geminiResponse

\* JSON.stringify(V) for the values V the pieces of a response hold: the
\* array [1] and the object whose member a is the string of a backslash and
\* the letter a
StringifiedValues ==
  { <<"[", "1", "]">>,
    <<"{", DoubleQuote, "a", DoubleQuote, ":", DoubleQuote, Backslash, Backslash,
      "a", DoubleQuote, "}">> }

\* the shape of a stringified value
ShapeOf(document) == IF Head(document) = "[" THEN "array" ELSE "object"

\* C31 as stated: the stringified form of a value between two code fences,
\* handed to parseJsonRobust with the shape of the value, comes back as the
\* value (the text of JSON.stringify, which holds no white space, read again).
C31_RoundTrip ==
  \A document \in StringifiedValues :
    ( /\ parsed.pc \in {"returned", "threw"}
      /\ geminiResponse = Fence \o document \o Fence
      /\ parsed.expectedType = ShapeOf(document) )
    => (parsed.pc = "returned" /\ parsed.value = document)

\* ---------------------------------------------- claims on sanitizeJsonString
\* C30: sanitizeJsonString applied to what sanitizeJsonString returned
\* returns it unchanged.
C30_SanitizerIdempotent ==
  [][sanitized = 1 /\ sanitized' = 2 => cleaned' = cleaned]_vars

\* ------------------------------------------------- claims on the validator
\* C37: a validation that has ended without Pause or Stop having been
\* pressed has submitted every question it had loaded: questionsValidated,
\* set to i + 1 as the question at index i is submitted, has come to the
\* number of questions loaded.
C37_EveryLoadedQuestionSubmitted ==
  ( /\ validator.pc = "free" /\ ~validator.pressed
    /\ validator.questions # <<>> )
  => validationProgress.questionsValidated = Len(validator.questions)

\* The validateQuestionWithGeminiAI invocation awaited has ended by a failure:
\* callGeminiAPI threw, or returned a text that parseJsonRobust rejects
FailedValidation ==
  /\ Ended(call[1])
  /\ call[1].pc = "threw" \/ call[1].result.form # "validation"

AttemptedFor(entry) ==
  RemainingToGenerate(
    entry.questionsToGenerate,
    Len(SelectSeq(RowsOf(rows, entry.id),
                  LAMBDA row : row.question_type = questionType)))

\* the rows of the statistics are those of the plan in the state: a row for
\* every topic the plan gives questions, in the order of the plan, with the
\* target of the plan and the remainder a run would attempt
StatsAgree ==
  LET planned == SelectSeq(calculationResult.topics,
                           LAMBDA entry : entry.questionsToGenerate > 0)
  IN  /\ Len(stats.topicStats) = Len(planned)
      /\ \A n \in DOMAIN planned :
           /\ stats.topicStats[n].topicId = planned[n].id
           /\ stats.topicStats[n].target = planned[n].questionsToGenerate
           /\ stats.topicStats[n].remaining = AttemptedFor(planned[n])
           /\ stats.topicStats[n].remaining =
                Max(0, stats.topicStats[n].target - stats.topicStats[n].existing)

\* whenever loadStats has run, in the state it leaves the statistics agree
\* with the plan
StatsAgreeWhenLoaded == [][stats' # stats => StatsAgree']_vars

\* C39: the statistics view and the generator agree: the target shown for a
\* topic is the questionsToGenerate of calculateTopicQuestions for the topics
\* and the total of the state, the remainder shown is max(0, target -
\* existing), and it is what a generation run would attempt for the topic.
C39_StatisticsAgreeWithGenerator ==
  stats.topicStats # <<>> => StatsAgree

====
